---- MODULE Spec2Model ----
(***************************************************************************)
(* State-machine model of the store inventory engine                       *)
(* (src/src/logic/inventoryEngine.ts, class InventoryEngine) and of the    *)
(* command gateway in front of it (src/src/api/mockApi.ts).                *)
(*                                                                         *)
(* Conventions                                                             *)
(*  - Time is counted in whole seconds since 2026-02-10T09:00:00Z.  The    *)
(*    engine compares millisecond values; every timestamp a command can    *)
(*    carry here is a whole second, and the synthetic read events of       *)
(*    applyTransferFromSource are stamped base+index ms with index < 1000, *)
(*    so no comparison of the code changes its outcome.                    *)
(*  - An engine state is a record `e`; every method of the class is an     *)
(*    operator from an engine state (and its arguments) to the engine      *)
(*    state after the call.  The variables below are the fields of the     *)
(*    one engine instance; an action applies a whole command.              *)
(*  - `undefined` is NONE for identifiers and 0 for confidence and         *)
(*    confirmedQty.  Confidence is kept in hundredths (0.9 -> 90).         *)
(*  - rfidEvents keeps, per (epc, antenna), the timestamp of the event     *)
(*    appended last (deduplicateReads reads nothing else of the log) and   *)
(*    readTimestamp, the timestamp of the last event of the pair appended  *)
(*    by ingestRFIDRead (-1 when there is none): the events appended by    *)
(*    applyTransferFromSource carry an id "rr-transfer-..." in the log.    *)
(*  - salesEvents and replenishmentConfirmations keep, per (zone, sku),    *)
(*    the running sums calculateNonRFIDInventory folds over the logs       *)
(*    (entries older than the baseline are left out when appended; the     *)
(*    baseline map is never written after construction).                   *)
(*  - Fields no engine code reads back (names, colours, polygons, rssi,    *)
(*    antennaId of a presence record, updatedAt/assignedAt/closedAt,       *)
(*    lastCalculatedAt of a snapshot: one row per key exists) are left out.*)
(*  - ret is the result of the command applied last and steps the number   *)
(*    of commands applied; versionSeen records, per snapshot key, the      *)
(*    highest version the key's row carried at the end of any command so   *)
(*    far (a row removed from snapshots keeps its entry).                  *)
(***************************************************************************)
EXTENDS Integers, Sequences, FiniteSets, TLC

VARIABLES
  zones, rules, nonRfidBaselines, mapping,
  snapshots, rfidEvents, salesEvents, tasks, epcPresence, customers,
  customerBasketItems, pendingRFIDPicks, replenishmentConfirmations,
  receivingOrders, staff, taskAudit, nowCursor, generatedEpcSeq,
  minMaxRuleTemplates, managedEffectiveRuleIds,
  ret, steps, versionSeen

engineVars == <<zones, rules, nonRfidBaselines, mapping,
  snapshots, rfidEvents, salesEvents, tasks, epcPresence, customers,
  customerBasketItems, pendingRFIDPicks, replenishmentConfirmations,
  receivingOrders, staff, taskAudit, nowCursor, generatedEpcSeq>>

vars == <<zones, rules, nonRfidBaselines, mapping,
  snapshots, rfidEvents, salesEvents, tasks, epcPresence, customers,
  customerBasketItems, pendingRFIDPicks, replenishmentConfirmations,
  receivingOrders, staff, taskAudit, nowCursor, generatedEpcSeq,
  minMaxRuleTemplates, managedEffectiveRuleIds,
  ret, steps, versionSeen>>

(* the module state of the gateway (api/mockApi.ts) around the engine *)
gatewayVars == <<minMaxRuleTemplates, managedEffectiveRuleIds>>

-----------------------------------------------------------------------------
(* Program constants *)

dedupWindowSec == 15
rfidPresenceTtlSec == 300
CASHIER_STORAGE_ZONE_ID == "zone-cashier-storage"
PRINTING_WALL_ZONE_ID == "zone-printing-wall"
InitialCursor == 3600
DefaultBaselineAt == 0
SeedBaselineAt == 3300
NONE == "none"

(* Bounds of the exploration *)
MaxSteps == 3

-----------------------------------------------------------------------------
(* Generic helpers *)

Max(a, b) == IF a >= b THEN a ELSE b
Min(a, b) == IF a <= b THEN a ELSE b

RECURSIVE SumSeq(_)
SumSeq(s) == IF s = <<>> THEN 0 ELSE Head(s) + SumSeq(Tail(s))

IndexSeq(s) == [i \in 1..Len(s) |-> i]

MapSeq(s, F(_)) == [i \in 1..Len(s) |-> F(s[i])]

(* Array.prototype.sort with comparator a.key - b.key is stable: an element
   goes after every element already placed whose key is <= its own. *)
RECURSIVE InsertPair(_, _)
InsertPair(sorted, x) ==
  IF sorted = <<>> THEN <<x>>
  ELSE IF Head(sorted)[1] <= x[1]
       THEN <<Head(sorted)>> \o InsertPair(Tail(sorted), x)
       ELSE <<x>> \o sorted

RECURSIVE SortPairs(_)
SortPairs(s) ==
  IF s = <<>> THEN <<>>
  ELSE InsertPair(SortPairs(SubSeq(s, 1, Len(s) - 1)), s[Len(s)])

SortByKey(s, Key(_)) ==
  LET pairs == [i \in 1..Len(s) |-> <<Key(s[i]), s[i]>>]
      sorted == SortPairs(pairs)
  IN [i \in 1..Len(s) |-> sorted[i][2]]

SeqToSet(s) == {s[i] : i \in 1..Len(s)}

taskIsOpen(status) == status \in {"CREATED", "ASSIGNED", "IN_PROGRESS"}

startsWithExternal(id) == id \in {"external-esbo", "external-other"}

-----------------------------------------------------------------------------
(* Dataset: the shape of sampleDataset with small quantities *)

Antennas ==
  << [id |-> "ant-woman-1", zoneId |-> "zone-shelf-a"],
     [id |-> "ant-kids-1", zoneId |-> "zone-shelf-b"],
     [id |-> "ant-warehouse-1", zoneId |-> "zone-warehouse"] >>

(* the catalogue: SKU-RFID-4 is a "player" jersey as in the sample catalogue,
   SKU-NR-JSY a NON_RFID product whose title contains "JSY" *)
skuSourceById == [k \in {"SKU-RFID-1", "SKU-RFID-4", "SKU-NR-1", "SKU-NR-JSY"} |->
                    IF k \in {"SKU-RFID-1", "SKU-RFID-4"} THEN "RFID"
                    ELSE "NON_RFID"]

personalizableSkuIds == {"SKU-RFID-4", "SKU-NR-JSY"}

(* skuSourceById.get(skuId) ?? "NON_RFID" *)
sourceOfSku(skuId) ==
  IF skuId \in DOMAIN skuSourceById THEN skuSourceById[skuId] ELSE "NON_RFID"

(* antennas.find(a => a.zoneId === zoneId)?.id ?? "system-transfer" *)
primaryAntenna(zoneId) ==
  LET hits == SelectSeq(Antennas, LAMBDA a : a.zoneId = zoneId)
  IN IF Len(hits) > 0 THEN hits[1].id ELSE "system-transfer"

(* string comparison of staff ids in autoAssign: candidate.id < selected.id *)
IdRank == [id \in {"staff-001", "staff-002", "staff-003"} |->
             IF id = "staff-001" THEN 1 ELSE IF id = "staff-002" THEN 2 ELSE 3]

-----------------------------------------------------------------------------
(* Snapshot store *)

snapKey(zoneId, skuId, source) == <<zoneId, skuId, source>>

getCurrentInventoryQty(e, zoneId, skuId, source) ==
  IF snapKey(zoneId, skuId, source) \in DOMAIN e.snapshots
  THEN e.snapshots[snapKey(zoneId, skuId, source)].qty
  ELSE 0

upsertSnapshot(e, zoneId, skuId, qty, source, confidence) ==
  LET k == snapKey(zoneId, skuId, source)
      existing == k \in DOMAIN e.snapshots
  IN IF zoneId = CASHIER_STORAGE_ZONE_ID /\ qty <= 0
     THEN IF existing
          THEN [e EXCEPT !.snapshots =
                  [x \in (DOMAIN e.snapshots) \ {k} |-> e.snapshots[x]]]
          ELSE e
     ELSE IF ~existing
     THEN [e EXCEPT !.snapshots =
             e.snapshots @@ (k :> [qty |-> qty, confidence |-> confidence,
                                   version |-> 1])]
     ELSE [e EXCEPT !.snapshots[k] =
             [qty |-> qty,
              confidence |-> IF confidence # 0 THEN confidence
                             ELSE @.confidence,
              version |-> @.version + 1]]

getBaselineSnapshot(e, zoneId, skuId) ==
  IF <<zoneId, skuId>> \in DOMAIN e.nonRfidBaselines
  THEN e.nonRfidBaselines[<<zoneId, skuId>>]
  ELSE [qty |-> 0, lastCalculatedAt |-> DefaultBaselineAt]

ledgerSum(log, zoneId, skuId) ==
  IF <<zoneId, skuId>> \in DOMAIN log THEN log[<<zoneId, skuId>>] ELSE 0

(* calculateNonRFIDInventory without the floor Math.max(0, ...) *)
calculateNonRFIDInventoryUnfloored(e, skuId, zoneId) ==
  LET baseline == getBaselineSnapshot(e, zoneId, skuId)
      sold == ledgerSum(e.salesEvents.sale, zoneId, skuId)
      returns == ledgerSum(e.salesEvents.return, zoneId, skuId)
      confirmedReplenishment ==
        ledgerSum(e.replenishmentConfirmations, zoneId, skuId)
  IN baseline.qty - sold + returns + confirmedReplenishment

calculateNonRFIDInventory(e, skuId, zoneId) ==
  LET baseline == getBaselineSnapshot(e, zoneId, skuId)
      sold == ledgerSum(e.salesEvents.sale, zoneId, skuId)
      returns == ledgerSum(e.salesEvents.return, zoneId, skuId)
      confirmedReplenishment ==
        ledgerSum(e.replenishmentConfirmations, zoneId, skuId)
  IN Max(0, baseline.qty - sold + returns + confirmedReplenishment)

(* the ledger append: entries with timestamp < baseline never count *)
addToLedger(log, e, zoneId, skuId, qty, timestamp) ==
  IF timestamp >= getBaselineSnapshot(e, zoneId, skuId).lastCalculatedAt
  THEN IF <<zoneId, skuId>> \in DOMAIN log
       THEN [log EXCEPT ![<<zoneId, skuId>>] = @ + qty]
       ELSE log @@ (<<zoneId, skuId>> :> qty)
  ELSE log

-----------------------------------------------------------------------------
(* Presence *)

presentInZone(e, p, zoneId) ==
  /\ p.zoneId = zoneId
  /\ ~(p.lastSeenAt < e.nowCursor - rfidPresenceTtlSec)

getPresentEPCs(e, zoneId, skuId) ==
  LET candidates == SelectSeq(e.epcPresence,
                      LAMBDA p : presentInZone(e, p, zoneId) /\ p.skuId = skuId)
      sorted == SortByKey(candidates, LAMBDA p : p.lastSeenAt)
  IN MapSeq(sorted, LAMBDA p : p.epc)

presenceHas(e, epc) == \E i \in 1..Len(e.epcPresence) : e.epcPresence[i].epc = epc

(* Map.set: an existing key keeps its place, a new key goes last *)
presenceSet(e, rec) ==
  IF presenceHas(e, rec.epc)
  THEN [e EXCEPT !.epcPresence =
          [i \in 1..Len(@) |-> IF @[i].epc = rec.epc THEN rec ELSE @[i]]]
  ELSE [e EXCEPT !.epcPresence = Append(@, rec)]

presenceDeleteAll(e, epcs) ==
  [e EXCEPT !.epcPresence = SelectSeq(@, LAMBDA p : p.epc \notin SeqToSet(epcs))]

-----------------------------------------------------------------------------
(* Zones, rules, staff *)

zoneExists(e, zoneId) == \E i \in 1..Len(e.zones) : e.zones[i].id = zoneId

findZone(e, zoneId) ==
  e.zones[CHOOSE i \in 1..Len(e.zones) : e.zones[i].id = zoneId]

sortedSources(zone) ==
  SortByKey(zone.replenishmentSources, LAMBDA s : s.sortOrder)

ruleIdOf(zoneId, skuId, source) == <<"rule", zoneId, skuId, source>>

inScope(member, zoneId) ==
  member.scopeAllZones \/ zoneId \in member.zoneScopeZoneIds

getAssignableActiveStaff(e) ==
  LET activeAssociates ==
        SelectSeq(e.staff, LAMBDA m : m.activeShift /\ m.role = "ASSOCIATE")
  IN IF Len(activeAssociates) > 0 THEN activeAssociates
     ELSE SelectSeq(e.staff, LAMBDA m : m.activeShift)

hasAnyAssignableStaffInScope(e, zoneId) ==
  \E i \in 1..Len(getAssignableActiveStaff(e)) :
     inScope(getAssignableActiveStaff(e)[i], zoneId)

pushTaskAudit(e, taskId, action) ==
  [e EXCEPT !.taskAudit = <<[taskId |-> taskId, action |-> action]>> \o @]

-----------------------------------------------------------------------------
(* Staff auto-assignment *)

loadByStaff(e, availableStaff) ==
  [id \in {availableStaff[i].id : i \in 1..Len(availableStaff)} |->
     Cardinality({i \in 1..Len(e.tasks) :
                    taskIsOpen(e.tasks[i].status)
                    /\ e.tasks[i].assignedStaffId = id})
     + Cardinality({j \in 1..Len(e.receivingOrders) :
                    e.receivingOrders[j].status = "IN_TRANSIT"
                    /\ e.receivingOrders[j].assignedStaffId = id})]

(* assignPool.reduce(...) without an initial value: starts at the first *)
RECURSIVE reduceMember(_, _, _)
reduceMember(selected, rest, load) ==
  IF rest = <<>> THEN selected
  ELSE LET candidate == Head(rest)
           selectedLoad == load[selected.id]
           candidateLoad == load[candidate.id]
           next == IF candidateLoad = selectedLoad
                   THEN IF IdRank[candidate.id] < IdRank[selected.id]
                        THEN candidate ELSE selected
                   ELSE IF candidateLoad < selectedLoad
                        THEN candidate ELSE selected
       IN reduceMember(next, Tail(rest), load)

(* the member selection without the reduce over the loads: the first member
   of the assign pool *)
selectMemberFirstInPool(availableStaff, load, zoneId) ==
  LET eligibleByScope == SelectSeq(availableStaff, LAMBDA m : inScope(m, zoneId))
      assignPool == IF Len(eligibleByScope) > 0 THEN eligibleByScope
                    ELSE availableStaff
  IN assignPool[1]

selectMember(availableStaff, load, zoneId) ==
  LET eligibleByScope == SelectSeq(availableStaff, LAMBDA m : inScope(m, zoneId))
      assignPool == IF Len(eligibleByScope) > 0 THEN eligibleByScope
                    ELSE availableStaff
  IN reduceMember(assignPool[1], Tail(assignPool), load)

RECURSIVE assignTasksLoop(_, _, _, _, _)
assignTasksLoop(e, pendingTasks, availableStaff, load, at) ==
  IF pendingTasks = <<>> THEN e
  ELSE LET i == Head(pendingTasks)
           member == selectMember(availableStaff, load, e.tasks[i].zoneId)
           e1 == [e EXCEPT !.tasks[i].assignedStaffId = member.id,
                           !.tasks[i].status = "ASSIGNED",
                           !.nowCursor = at]
           e2 == pushTaskAudit(e1, i, "ASSIGNED")
       IN assignTasksLoop(e2, Tail(pendingTasks), availableStaff,
                          [load EXCEPT ![member.id] = @ + 1], at)

autoAssignPendingTasks(e, at) ==
  LET pendingTasks ==
        SortByKey(SelectSeq(IndexSeq(e.tasks),
                    LAMBDA i : e.tasks[i].status = "CREATED"
                               /\ e.tasks[i].assignedStaffId = NONE),
                  LAMBDA i : e.tasks[i].createdAt)
      availableStaff == getAssignableActiveStaff(e)
  IN IF Len(pendingTasks) = 0 THEN e
     ELSE IF Len(availableStaff) = 0 THEN e
     ELSE assignTasksLoop(e, pendingTasks, availableStaff,
                          loadByStaff(e, availableStaff), at)

RECURSIVE assignOrdersLoop(_, _, _, _, _)
assignOrdersLoop(e, pendingOrders, availableStaff, load, at) ==
  IF pendingOrders = <<>> THEN e
  ELSE LET j == Head(pendingOrders)
           member == selectMember(availableStaff, load,
                                  e.receivingOrders[j].destinationZoneId)
           e1 == [e EXCEPT !.receivingOrders[j].assignedStaffId = member.id,
                           !.nowCursor = at]
       IN assignOrdersLoop(e1, Tail(pendingOrders), availableStaff,
                           [load EXCEPT ![member.id] = @ + 1], at)

autoAssignPendingReceivingOrders(e, at) ==
  LET pendingOrders ==
        SortByKey(SelectSeq(IndexSeq(e.receivingOrders),
                    LAMBDA j : e.receivingOrders[j].status = "IN_TRANSIT"
                               /\ e.receivingOrders[j].assignedStaffId = NONE),
                  LAMBDA j : e.receivingOrders[j].createdAt)
      availableStaff == getAssignableActiveStaff(e)
  IN IF Len(pendingOrders) = 0 THEN e
     ELSE IF Len(availableStaff) = 0 THEN e
     ELSE assignOrdersLoop(e, pendingOrders, availableStaff,
                           loadByStaff(e, availableStaff), at)

-----------------------------------------------------------------------------
(* Replenishment tasks *)

getReservedTaskQtyFromSource(e, sourceZoneId, skuId, excludeTaskId) ==
  SumSeq(MapSeq(SelectSeq(IndexSeq(e.tasks),
                  LAMBDA i : i # excludeTaskId
                             /\ taskIsOpen(e.tasks[i].status)
                             /\ e.tasks[i].skuId = skuId
                             /\ e.tasks[i].sourceZoneId = sourceZoneId),
                LAMBDA i : Max(0, e.tasks[i].deficitQty)))

(* excludeTaskId = 0 stands for the omitted argument *)
buildSourceCandidates(e, rule, excludeTaskId) ==
  IF ~zoneExists(e, rule.zoneId) THEN <<>>
  ELSE MapSeq(sortedSources(findZone(e, rule.zoneId)),
         LAMBDA s : [sourceZoneId |-> s.sourceZoneId,
                     sortOrder |-> s.sortOrder,
                     availableQty |->
                       Max(0, getCurrentInventoryQty(e, s.sourceZoneId,
                                                     rule.skuId, rule.source)
                              - getReservedTaskQtyFromSource(e, s.sourceZoneId,
                                                     rule.skuId, excludeTaskId))])

(* sourceZoneId ?? candidates.find(c => c.availableQty > 0)?.sourceZoneId
                ?? candidates[0]?.sourceZoneId *)
defaultSource(sourceZoneId, sourceCandidates) ==
  LET withStock == SelectSeq(sourceCandidates, LAMBDA c : c.availableQty > 0)
  IN IF sourceZoneId # NONE THEN sourceZoneId
     ELSE IF Len(withStock) > 0 THEN withStock[1].sourceZoneId
     ELSE IF Len(sourceCandidates) > 0 THEN sourceCandidates[1].sourceZoneId
     ELSE NONE

generateReplenishmentTask(e, rule, deficitQty, triggerQty, sourceZoneId, sourceCandidates) ==
  LET task == [ruleId |-> ruleIdOf(rule.zoneId, rule.skuId, rule.source),
               zoneId |-> rule.zoneId,
               skuId |-> rule.skuId,
               sourceCandidates |-> sourceCandidates,
               sourceZoneId |-> defaultSource(sourceZoneId, sourceCandidates),
               status |-> "CREATED",
               triggerQty |-> triggerQty,
               deficitQty |-> deficitQty,
               targetQty |-> rule.maxQty,
               assignedStaffId |-> NONE,
               confirmedQty |-> 0,
               closeReason |-> NONE,
               createdAt |-> e.nowCursor]
      e1 == [e EXCEPT !.tasks = Append(@, task)]
  IN autoAssignPendingTasks(pushTaskAudit(e1, Len(e.tasks) + 1, "CREATED"),
                            e.nowCursor)

(* closeReplenishmentTask without its pushTaskAudit(task.id, "CLOSED", ...) *)
closeReplenishmentTaskUnaudited(e, taskId, reason) ==
  IF taskId \notin 1..Len(e.tasks) THEN e
  ELSE IF ~taskIsOpen(e.tasks[taskId].status) THEN e
  ELSE LET e1 == [e EXCEPT
                    !.tasks[taskId].status =
                       IF reason \in {"confirmed", "confirmed_partial"}
                       THEN "CONFIRMED" ELSE "REJECTED",
                    !.tasks[taskId].closeReason = reason]
       IN autoAssignPendingReceivingOrders(
            autoAssignPendingTasks(e1, e.nowCursor),
            e.nowCursor)

closeReplenishmentTask(e, taskId, reason) ==
  IF taskId \notin 1..Len(e.tasks) THEN e
  ELSE IF ~taskIsOpen(e.tasks[taskId].status) THEN e
  ELSE LET e1 == [e EXCEPT
                    !.tasks[taskId].status =
                       IF reason \in {"confirmed", "confirmed_partial"}
                       THEN "CONFIRMED" ELSE "REJECTED",
                    !.tasks[taskId].closeReason = reason]
       IN autoAssignPendingReceivingOrders(
            autoAssignPendingTasks(pushTaskAudit(e1, taskId, "CLOSED"),
                                   e.nowCursor),
            e.nowCursor)

RECURSIVE closeAll(_, _, _)
closeAll(e, taskIds, reason) ==
  IF taskIds = <<>> THEN e
  ELSE closeAll(closeReplenishmentTask(e, Head(taskIds), reason),
                Tail(taskIds), reason)

-----------------------------------------------------------------------------
(* Receiving orders raised by evaluation *)

createReceivingOrder(e, payload) ==
  LET requestedQty == Max(0, payload.requestedQty)
      isExternalSource == startsWithExternal(payload.sourceLocationId)
      order == [id |-> Len(e.receivingOrders) + 1,
                sourceLocationId |-> payload.sourceLocationId,
                destinationZoneId |-> payload.destinationZoneId,
                skuId |-> payload.skuId,
                source |-> payload.source,
                requestedQty |-> requestedQty,
                confirmedQty |-> 0,
                status |-> "IN_TRANSIT",
                assignedStaffId |-> NONE,
                createdAt |-> payload.createdAt]
      e1 == [e EXCEPT !.nowCursor = payload.createdAt,
                      !.receivingOrders = <<order>> \o @]
  IN IF requestedQty <= 0 THEN [e |-> e, status |-> "invalid_qty"]
     ELSE IF ~zoneExists(e, payload.destinationZoneId)
     THEN [e |-> e, status |-> "destination_not_found"]
     ELSE IF payload.skuId \notin DOMAIN skuSourceById
     THEN [e |-> e, status |-> "sku_not_found"]
     ELSE IF sourceOfSku(payload.skuId) # payload.source
     THEN [e |-> e, status |-> "source_mismatch"]
     ELSE IF ~isExternalSource /\ ~zoneExists(e, payload.sourceLocationId)
     THEN [e |-> e, status |-> "source_not_found"]
     ELSE IF ~isExternalSource
             /\ payload.sourceLocationId = payload.destinationZoneId
     THEN [e |-> e, status |-> "source_equals_destination"]
     ELSE [e |-> autoAssignPendingReceivingOrders(e1, payload.createdAt),
           status |-> "created"]

resolveInboundSourceLocation(e, zone, rule, requiredQty) ==
  LET ordered == sortedSources(zone)
      internalCandidates ==
        MapSeq(SelectSeq(ordered, LAMBDA s : ~startsWithExternal(s.sourceZoneId)),
               LAMBDA s : [sourceZoneId |-> s.sourceZoneId,
                           availableQty |->
                             getCurrentInventoryQty(e, s.sourceZoneId,
                                                    rule.skuId, rule.source)])
      enoughInternal ==
        SelectSeq(internalCandidates, LAMBDA c : c.availableQty >= requiredQty)
      someInternal ==
        SelectSeq(internalCandidates, LAMBDA c : c.availableQty > 0)
      firstExternal ==
        SelectSeq(ordered, LAMBDA s : startsWithExternal(s.sourceZoneId))
  IN IF Len(ordered) = 0 THEN "external-esbo"
     ELSE IF Len(enoughInternal) > 0 THEN enoughInternal[1].sourceZoneId
     ELSE IF Len(someInternal) > 0 THEN someInternal[1].sourceZoneId
     ELSE IF Len(firstExternal) > 0 THEN firstExternal[1].sourceZoneId
     ELSE ordered[1].sourceZoneId

RECURSIVE closeNonSalesTasks(_, _, _)
closeNonSalesTasks(e, ruleId, i) ==
  IF i > Len(e.tasks) THEN e
  ELSE IF e.tasks[i].ruleId # ruleId
          \/ ~taskIsOpen(e.tasks[i].status)
          \/ e.tasks[i].status = "IN_PROGRESS"
       THEN closeNonSalesTasks(e, ruleId, i + 1)
       ELSE closeNonSalesTasks(
              closeReplenishmentTask(e, i, "non_sales_receiving_flow"),
              ruleId, i + 1)

(* lines 914-945 once the rule's open tasks are closed *)
(* raiseReceivingOrder without the orders already in transit *)
raiseReceivingOrderUnplanned(e1, zone, rule, currentQty) ==
  LET desiredQty == Max(0, rule.maxQty - currentQty)
  IN IF currentQty > rule.minQty THEN e1
     ELSE IF desiredQty <= 0 THEN e1
     ELSE createReceivingOrder(e1,
            [sourceLocationId |->
               resolveInboundSourceLocation(e1, zone, rule, desiredQty),
             destinationZoneId |-> zone.id,
             skuId |-> rule.skuId,
             source |-> rule.source,
             requestedQty |-> desiredQty,
             createdAt |-> e1.nowCursor]).e

raiseReceivingOrder(e1, zone, rule, currentQty) ==
  LET desiredQty == Max(0, rule.maxQty - currentQty)
      plannedInTransitQty ==
        SumSeq(MapSeq(SelectSeq(e1.receivingOrders,
                        LAMBDA o : o.status = "IN_TRANSIT"
                                   /\ o.destinationZoneId = zone.id
                                   /\ o.skuId = rule.skuId
                                   /\ o.source = rule.source),
                      LAMBDA o : Max(0, o.requestedQty)))
      remainingQty == Max(0, desiredQty - plannedInTransitQty)
  IN IF currentQty > rule.minQty THEN e1
     ELSE IF desiredQty <= 0 THEN e1
     ELSE IF remainingQty <= 0 THEN e1
     ELSE createReceivingOrder(e1,
            [sourceLocationId |->
               resolveInboundSourceLocation(e1, zone, rule, remainingQty),
             destinationZoneId |-> zone.id,
             skuId |-> rule.skuId,
             source |-> rule.source,
             requestedQty |-> remainingQty,
             createdAt |-> e1.nowCursor]).e

evaluateInboundReceivingNeed(e, zone, rule, currentQty) ==
  raiseReceivingOrder(
    closeNonSalesTasks(e, ruleIdOf(rule.zoneId, rule.skuId, rule.source), 1),
    zone, rule, currentQty)

-----------------------------------------------------------------------------
(* Min/max evaluation of a sales location *)

openTasksOfRule(e, ruleId) ==
  SortByKey(SelectSeq(IndexSeq(e.tasks),
              LAMBDA i : e.tasks[i].ruleId = ruleId
                         /\ taskIsOpen(e.tasks[i].status)),
            LAMBDA i : e.tasks[i].createdAt)

notInProgress(e, taskIds) ==
  SelectSeq(taskIds, LAMBDA i : e.tasks[i].status # "IN_PROGRESS")

(* mergeStep where the keeper keeps its own deficit *)
mergeStepKeepingDeficit(e, zone, rule) ==
  LET ruleId == ruleIdOf(rule.zoneId, rule.skuId, rule.source)
      openTasks == openTasksOfRule(e, ruleId)
      autoRejectableTasks == notInProgress(e, openTasks)
      distinctTaskSources ==
        {e.tasks[i].sourceZoneId : i \in SeqToSet(autoRejectableTasks)}
      singleSourceDestination == Len(zone.replenishmentSources) <= 1
      singleTaskSource == Cardinality(distinctTaskSources) <= 1
      keeper == autoRejectableTasks[1]
      e1 == e
  IN IF Len(autoRejectableTasks) > 1
        /\ (singleSourceDestination \/ singleTaskSource)
     THEN CHOOSE out \in
            { [e |-> e2,
               openTasks |-> openTasksOfRule(e2, ruleId),
               autoRejectableTasks |->
                 notInProgress(e2, openTasksOfRule(e2, ruleId))]
              : e2 \in {closeAll(e1, Tail(autoRejectableTasks), "merged_plan")} }
            : TRUE
     ELSE [e |-> e, openTasks |-> openTasks,
           autoRejectableTasks |-> autoRejectableTasks]

(* lines 306-330: keep one open task per rule when the destination
   effectively has one source *)
mergeStep(e, zone, rule) ==
  LET ruleId == ruleIdOf(rule.zoneId, rule.skuId, rule.source)
      openTasks == openTasksOfRule(e, ruleId)
      autoRejectableTasks == notInProgress(e, openTasks)
      distinctTaskSources ==
        {e.tasks[i].sourceZoneId : i \in SeqToSet(autoRejectableTasks)}
      singleSourceDestination == Len(zone.replenishmentSources) <= 1
      singleTaskSource == Cardinality(distinctTaskSources) <= 1
      keeper == autoRejectableTasks[1]
      mergedDeficit ==
        SumSeq(MapSeq(autoRejectableTasks,
                      LAMBDA i : Max(0, e.tasks[i].deficitQty)))
      e1 == [e EXCEPT !.tasks[keeper].deficitQty = mergedDeficit]
  IN IF Len(autoRejectableTasks) > 1
        /\ (singleSourceDestination \/ singleTaskSource)
     THEN CHOOSE out \in
            { [e |-> e2,
               openTasks |-> openTasksOfRule(e2, ruleId),
               autoRejectableTasks |->
                 notInProgress(e2, openTasksOfRule(e2, ruleId))]
              : e2 \in {closeAll(e1, Tail(autoRejectableTasks), "merged_plan")} }
            : TRUE
     ELSE [e |-> e, openTasks |-> openTasks,
           autoRejectableTasks |-> autoRejectableTasks]

(* lines 343-357: walk the adjustable tasks newest first *)
RECURSIVE trimLoop(_, _, _, _)
trimLoop(e, autoRejectableTasks, i, overflow) ==
  IF i < 1 \/ overflow <= 0 THEN e
  ELSE LET t == autoRejectableTasks[i]
           deficit == e.tasks[t].deficitQty
       IN IF deficit <= overflow
          THEN trimLoop(closeReplenishmentTask(e, t, "plan_adjusted"),
                        autoRejectableTasks, i - 1, overflow - deficit)
          ELSE trimLoop([e EXCEPT !.tasks[t].deficitQty = @ - overflow],
                        autoRejectableTasks, i - 1, 0)

(* lines 359-366 *)
RECURSIVE refreshLoop(_, _, _)
refreshLoop(e, rule, openTasks) ==
  IF openTasks = <<>> THEN e
  ELSE LET i == Head(openTasks)
           candidates == buildSourceCandidates(e, rule, i)
       IN refreshLoop(
            [e EXCEPT !.tasks[i].sourceCandidates = candidates,
                      !.tasks[i].sourceZoneId = defaultSource(@, candidates)],
            rule, Tail(openTasks))

(* lines 374-381 *)
RECURSIVE allocLoop(_, _, _, _, _, _, _)
allocLoop(e, rule, candidates, k, remainingQty, createdAnyTask, currentQty) ==
  IF k > Len(candidates) \/ remainingQty <= 0
  THEN [e |-> e, remainingQty |-> remainingQty,
        createdAnyTask |-> createdAnyTask]
  ELSE LET source == candidates[k]
           allocQty == Min(remainingQty, source.availableQty)
       IN IF allocQty <= 0
          THEN allocLoop(e, rule, candidates, k + 1, remainingQty,
                         createdAnyTask, currentQty)
          ELSE allocLoop(
                 generateReplenishmentTask(e, rule, allocQty, currentQty,
                                           source.sourceZoneId, candidates),
                 rule, candidates, k + 1, remainingQty - allocQty, TRUE,
                 currentQty)

(* lines 368-393 *)
(* lines 383-392 on the result of the allocation *)
fallbackTask(alloc, rule, candidates, currentQty) ==
  IF ~alloc.createdAnyTask /\ alloc.remainingQty > 0
  THEN generateReplenishmentTask(alloc.e, rule, alloc.remainingQty, currentQty,
         IF Len(candidates) > 0 THEN candidates[1].sourceZoneId ELSE NONE,
         candidates)
  ELSE alloc.e

(* allocate without the walk over the sources: the whole need goes to the
   first candidate *)
allocateOnFirstSource(e, rule, candidates, remainingQty, currentQty) ==
  fallbackTask([e |-> e, remainingQty |-> remainingQty,
                createdAnyTask |-> FALSE],
               rule, candidates, currentQty)

(* lines 372-392 with the source candidates *)
allocate(e, rule, candidates, remainingQty, currentQty) ==
  fallbackTask(allocLoop(e, rule, candidates, 1, remainingQty, FALSE, currentQty),
               rule, candidates, currentQty)

triggerStep(e, rule, currentQty, desiredQty, plannedQty) ==
  LET remainingQty == Max(0, desiredQty - plannedQty)
  IN IF currentQty > rule.minQty THEN e
     ELSE IF remainingQty <= 0 THEN e
     ELSE allocate(e, rule, buildSourceCandidates(e, rule, 0), remainingQty,
                   currentQty)

(* lines 339-357: returns the engine and the plannedQty the trigger uses *)
trimStep(e, rule, currentQty, openTasks, autoRejectableTasks) ==
  LET desiredQty == Max(0, rule.maxQty - currentQty)
      plannedQty == SumSeq(MapSeq(openTasks, LAMBDA i : e.tasks[i].deficitQty))
  IN IF plannedQty > desiredQty
     THEN [e |-> trimLoop(e, autoRejectableTasks, Len(autoRejectableTasks),
                          plannedQty - desiredQty),
           plannedQty |-> desiredQty]
     ELSE [e |-> e, plannedQty |-> plannedQty]

(* lines 359-393 on the result of the trim *)
evaluateTrimmed(trimmed, merged, rule, currentQty) ==
  triggerStep(refreshLoop(trimmed.e, rule, merged.openTasks), rule, currentQty,
              Max(0, rule.maxQty - currentQty), trimmed.plannedQty)

(* lines 332-393 on the result of the merge *)
evaluateMerged(merged, rule, currentQty) ==
  IF currentQty >= rule.maxQty
  THEN closeAll(merged.e, merged.autoRejectableTasks, "stock_recovered")
  ELSE evaluateTrimmed(trimStep(merged.e, rule, currentQty, merged.openTasks,
                                merged.autoRejectableTasks),
                       merged, rule, currentQty)

evaluateSalesRule(e, zone, rule) ==
  evaluateMerged(mergeStep(e, zone, rule), rule,
                 getCurrentInventoryQty(e, rule.zoneId, rule.skuId, rule.source))

RECURSIVE evaluateRules(_, _, _)
evaluateRules(e, zone, ruleSeq) ==
  IF ruleSeq = <<>> THEN e
  ELSE LET rule == Head(ruleSeq)
           currentQty == getCurrentInventoryQty(e, zone.id, rule.skuId, rule.source)
       IN evaluateRules(
            IF ~zone.isSalesLocation
            THEN evaluateInboundReceivingNeed(e, zone, rule, currentQty)
            ELSE evaluateSalesRule(e, zone, rule),
            zone, Tail(ruleSeq))

evaluateMinMax(e, zoneId) ==
  IF ~zoneExists(e, zoneId) THEN e
  ELSE evaluateRules(e, findZone(e, zoneId),
         SelectSeq(e.rules, LAMBDA r : r.zoneId = zoneId /\ r.isActive))

-----------------------------------------------------------------------------
(* Snapshot recompute of one location *)

presentCount(e, zoneId, skuId) ==
  Cardinality({i \in 1..Len(e.epcPresence) :
                 presentInZone(e, e.epcPresence[i], zoneId)
                 /\ e.epcPresence[i].skuId = skuId})

rfidSkuCandidates(e, zoneId) ==
  {e.epcPresence[i].skuId : i \in {j \in 1..Len(e.epcPresence) :
                                     presentInZone(e, e.epcPresence[j], zoneId)}}
  \cup {e.rules[i].skuId : i \in {j \in 1..Len(e.rules) :
                                    e.rules[j].zoneId = zoneId
                                    /\ e.rules[j].source = "RFID"
                                    /\ e.rules[j].isActive}}
  \cup {k[2] : k \in {x \in DOMAIN e.snapshots : x[1] = zoneId /\ x[3] = "RFID"}}

nonRfidSkusInZone(e, zoneId) ==
  {e.rules[i].skuId : i \in {j \in 1..Len(e.rules) :
                               e.rules[j].zoneId = zoneId
                               /\ e.rules[j].source = "NON_RFID"
                               /\ e.rules[j].isActive}}

RECURSIVE writeRfidSnapshots(_, _, _)
writeRfidSnapshots(e, zoneId, skuIds) ==
  IF skuIds = {} THEN e
  ELSE LET skuId == CHOOSE k \in skuIds : TRUE
           qty == presentCount(e, zoneId, skuId)
       IN writeRfidSnapshots(
            upsertSnapshot(e, zoneId, skuId, qty, "RFID",
                           IF qty > 0 THEN 90 ELSE 70),
            zoneId, skuIds \ {skuId})

RECURSIVE writeNonRfidSnapshots(_, _, _)
writeNonRfidSnapshots(e, zoneId, skuIds) ==
  IF skuIds = {} THEN e
  ELSE LET skuId == CHOOSE k \in skuIds : TRUE
       IN writeNonRfidSnapshots(
            upsertSnapshot(e, zoneId, skuId,
                           calculateNonRFIDInventory(e, skuId, zoneId),
                           "NON_RFID", 0),
            zoneId, skuIds \ {skuId})

calculateZoneInventory(e, zoneId) ==
  evaluateMinMax(
    writeNonRfidSnapshots(
      writeRfidSnapshots(e, zoneId, rfidSkuCandidates(e, zoneId)),
      zoneId, nonRfidSkusInZone(e, zoneId)),
    zoneId)

-----------------------------------------------------------------------------
(* RFID ingestion *)

(* deduplicateReads with the window laid after the event instead of before
   it: lowerBound = eventMs + timeWindowSec * 1000 *)
deduplicateReadsWindowAhead(e, epc, antennaId, timeWindowSec, eventTimestamp) ==
  LET lowerBound == eventTimestamp + timeWindowSec
  IN IF <<epc, antennaId>> \notin DOMAIN e.rfidEvents THEN FALSE
     ELSE e.rfidEvents[<<epc, antennaId>>].timestamp >= lowerBound

deduplicateReads(e, epc, antennaId, timeWindowSec, eventTimestamp) ==
  LET lowerBound == eventTimestamp - timeWindowSec
  IN IF <<epc, antennaId>> \notin DOMAIN e.rfidEvents THEN FALSE
     ELSE e.rfidEvents[<<epc, antennaId>>].timestamp >= lowerBound

(* rfidEvents.push(event); isTransfer: the event is one of the "rr-transfer"
   records of applyTransferFromSource *)
pushRfidEvent(e, epc, antennaId, timestamp, isTransfer) ==
  IF <<epc, antennaId>> \in DOMAIN e.rfidEvents
  THEN [e EXCEPT !.rfidEvents[<<epc, antennaId>>] =
          [timestamp |-> timestamp,
           readTimestamp |-> IF isTransfer THEN @.readTimestamp ELSE timestamp]]
  ELSE [e EXCEPT !.rfidEvents = @ @@ (<<epc, antennaId>> :>
          [timestamp |-> timestamp,
           readTimestamp |-> IF isTransfer THEN -1 ELSE timestamp])]

(* the skuId of the first active mapping, NONE when there is none *)
lookupSkuByEPC(e, epc, at) ==
  LET hits == SelectSeq(e.mapping, LAMBDA m : m.epc = epc /\ m.activeFrom <= at)
  IN IF Len(hits) > 0 THEN hits[1].skuId ELSE NONE

firstN(s, n) == SubSeq(s, 1, Min(Max(0, n), Len(s)))

(* the loop of applyPendingRFIDPicks without lines 1255-1258: the basket
   item is not credited with the EPCs its pick consumed *)
RECURSIVE pendingPicksLoopUncounted(_, _)
pendingPicksLoopUncounted(e, pending) ==
  IF pending = <<>> THEN e
  ELSE LET i == Head(pending)
           pick == e.pendingRFIDPicks[i]
           epcs == firstN(getPresentEPCs(e, pick.zoneId, pick.skuId),
                          pick.qtyRemaining)
           left == pick.qtyRemaining - Len(epcs)
           e1 == presenceDeleteAll(e, epcs)
           e2 == [e1 EXCEPT
                    !.pendingRFIDPicks[i].consumedEpcs = @ \o epcs,
                    !.pendingRFIDPicks[i].qtyRemaining =
                       IF left <= 0 THEN 0 ELSE left,
                    !.pendingRFIDPicks[i].status =
                       IF left <= 0 THEN "COMPLETED" ELSE @]
       IN IF Len(epcs) = 0 THEN pendingPicksLoopUncounted(e, Tail(pending))
          ELSE pendingPicksLoopUncounted(e2, Tail(pending))

RECURSIVE pendingPicksLoop(_, _)
pendingPicksLoop(e, pending) ==
  IF pending = <<>> THEN e
  ELSE LET i == Head(pending)
           pick == e.pendingRFIDPicks[i]
           epcs == firstN(getPresentEPCs(e, pick.zoneId, pick.skuId),
                          pick.qtyRemaining)
           left == pick.qtyRemaining - Len(epcs)
           e1 == presenceDeleteAll(e, epcs)
           e2 == [e1 EXCEPT
                    !.pendingRFIDPicks[i].consumedEpcs = @ \o epcs,
                    !.pendingRFIDPicks[i].qtyRemaining =
                       IF left <= 0 THEN 0 ELSE left,
                    !.pendingRFIDPicks[i].status =
                       IF left <= 0 THEN "COMPLETED" ELSE @]
           e3 == IF pick.basketItemId \in 1..Len(e2.customerBasketItems)
                 THEN [e2 EXCEPT
                         !.customerBasketItems[pick.basketItemId]
                            .pickedConfirmedQty = @ + Len(epcs)]
                 ELSE e2
       IN IF Len(epcs) = 0 THEN pendingPicksLoop(e, Tail(pending))
          ELSE pendingPicksLoop(e3, Tail(pending))

applyPendingRFIDPicks(e, zoneId) ==
  LET pending == SelectSeq(IndexSeq(e.pendingRFIDPicks),
                   LAMBDA i : e.pendingRFIDPicks[i].zoneId = zoneId
                              /\ e.pendingRFIDPicks[i].status = "IN_PROGRESS")
  IN IF Len(pending) = 0 THEN e
     ELSE evaluateMinMax(pendingPicksLoop(e, pending), zoneId)

ingestRFIDRead(e, event) ==
  LET antennaOk == \E i \in 1..Len(Antennas) :
                      Antennas[i].id = event.antennaId
                      /\ Antennas[i].zoneId = event.zoneId
      skuId == lookupSkuByEPC(e, event.epc, event.timestamp)
      e1 == pushRfidEvent(e, event.epc, event.antennaId, event.timestamp,
                         FALSE)
      e2 == [e1 EXCEPT !.nowCursor = event.timestamp]
      e3 == presenceSet(e2, [epc |-> event.epc, skuId |-> skuId,
                             zoneId |-> event.zoneId,
                             lastSeenAt |-> event.timestamp])
  IN IF ~antennaOk THEN [e |-> e, status |-> "invalid_antenna_or_zone"]
     ELSE IF deduplicateReads(e, event.epc, event.antennaId, dedupWindowSec,
                              event.timestamp)
     THEN [e |-> e, status |-> "duplicate_ignored"]
     ELSE IF skuId = NONE THEN [e |-> e, status |-> "unknown_epc"]
     ELSE [e |-> calculateZoneInventory(
                   applyPendingRFIDPicks(e3, event.zoneId), event.zoneId),
           status |-> "accepted"]

(* lines 196-199 and 213-216 *)
refreshZonePresence(e, zoneId, timestamp) ==
  [e EXCEPT !.epcPresence =
     [i \in 1..Len(@) |-> IF @[i].zoneId = zoneId
                          THEN [@[i] EXCEPT !.lastSeenAt = timestamp]
                          ELSE @[i]]]

forceZoneSweep(e, zoneId, timestamp) ==
  LET e1 == [e EXCEPT !.nowCursor = timestamp]
      e2 == refreshZonePresence(e1, zoneId, timestamp)
  IN IF ~zoneExists(e, zoneId) THEN [e |-> e, status |-> "zone_not_found"]
     ELSE [e |-> calculateZoneInventory(applyPendingRFIDPicks(e2, zoneId),
                                        zoneId),
           status |-> "accepted"]

scanZone(e, zoneId, timestamp) ==
  LET e1 == [e EXCEPT !.nowCursor = timestamp]
      e2 == refreshZonePresence(e1, zoneId, timestamp)
  IN IF ~zoneExists(e, zoneId) THEN [e |-> e, status |-> "zone_not_found"]
     ELSE [e |-> calculateZoneInventory(e2, zoneId), status |-> "accepted"]

-----------------------------------------------------------------------------
(* Sales *)

(* lines 1270-1275 on the recalculated location *)
forceDeductedQty(e1, zoneId, skuId, targetQty) ==
  IF getCurrentInventoryQty(e1, zoneId, skuId, "RFID") > targetQty
  THEN evaluateMinMax(upsertSnapshot(e1, zoneId, skuId, targetQty, "RFID", 55),
                      zoneId)
  ELSE e1

deductRFIDImmediate(e, zoneId, skuId, qty) ==
  LET beforeQty == getCurrentInventoryQty(e, zoneId, skuId, "RFID")
      epcs == firstN(getPresentEPCs(e, zoneId, skuId), qty)
  IN forceDeductedQty(calculateZoneInventory(presenceDeleteAll(e, epcs), zoneId),
                      zoneId, skuId, Max(0, beforeQty - qty))

ingestSalesEvent(e, event) ==
  LET e1 == [e EXCEPT
               !.salesEvents.sale =
                  IF event.eventType = "SALE"
                  THEN addToLedger(@, e, event.zoneId, event.skuId, event.qty,
                                   event.timestamp)
                  ELSE @,
               !.salesEvents.return =
                  IF event.eventType = "RETURN"
                  THEN addToLedger(@, e, event.zoneId, event.skuId, event.qty,
                                   event.timestamp)
                  ELSE @,
               !.nowCursor = event.timestamp]
  IN IF sourceOfSku(event.skuId) = "RFID" /\ event.eventType = "SALE"
     THEN [e |-> deductRFIDImmediate(e1, event.zoneId, event.skuId, event.qty),
           status |-> "accepted_rfid_immediate"]
     ELSE [e |-> calculateZoneInventory(e1, event.zoneId),
           status |-> "accepted"]

-----------------------------------------------------------------------------
(* Transfers *)

GeneratedEpc(seq) == 1000 + seq

RECURSIVE createExternalRFIDForDestination(_, _, _, _, _)
createExternalRFIDForDestination(e, skuId, destinationZoneId, qty, at) ==
  IF qty <= 0 THEN e
  ELSE LET epc == GeneratedEpc(e.generatedEpcSeq)
           e1 == [e EXCEPT !.generatedEpcSeq = @ + 1,
                           !.mapping = Append(@, [epc |-> epc, skuId |-> skuId,
                                                   activeFrom |-> at])]
           e2 == presenceSet(e1, [epc |-> epc, skuId |-> skuId,
                                  zoneId |-> destinationZoneId,
                                  lastSeenAt |-> at])
       IN createExternalRFIDForDestination(e2, skuId, destinationZoneId,
                                           qty - 1, at)

(* presence.zoneId = destination; presence.lastSeenAt = at, for each moved EPC *)
rebindPresence(e, epcs, destinationZoneId, at) ==
  [e EXCEPT !.epcPresence =
     [i \in 1..Len(@) |-> IF @[i].epc \in SeqToSet(epcs)
                          THEN [@[i] EXCEPT !.zoneId = destinationZoneId,
                                            !.lastSeenAt = at]
                          ELSE @[i]]]

moveRFIDEpcs(e, sourceZoneId, destinationZoneId, skuId, qty, at) ==
  LET movedEpcs == firstN(getPresentEPCs(e, sourceZoneId, skuId), qty)
  IN [e |-> rebindPresence(e, movedEpcs, destinationZoneId, at),
      movedEpcs |-> movedEpcs]

RECURSIVE pushTransferEvents(_, _, _)
pushTransferEvents(e, epcs, antennaId) ==
  IF epcs = <<>> THEN e
  ELSE pushTransferEvents(pushRfidEvent(e, Head(epcs), antennaId, e.nowCursor,
                                        TRUE),
                          Tail(epcs), antennaId)

applyTransferFromSource(e, sourceZoneId, destinationZoneId, skuId, qty) ==
  LET sourceType == sourceOfSku(skuId)
      movedEpcs == firstN(getPresentEPCs(e, sourceZoneId, skuId), qty)
      destinationAntenna == primaryAntenna(destinationZoneId)
      r1 == rebindPresence(e, movedEpcs, destinationZoneId, e.nowCursor)
      r2 == pushTransferEvents(r1, movedEpcs, destinationAntenna)
      current == getCurrentInventoryQty(e, sourceZoneId, skuId, "NON_RFID")
      movedQty == Min(Max(0, qty), current)
  IN IF sourceType = "RFID"
     THEN [e |-> r2, movedQty |-> Len(movedEpcs), movedEpcs |-> movedEpcs]
     ELSE [e |-> upsertSnapshot(e, sourceZoneId, skuId, current - movedQty,
                                "NON_RFID", 0),
           movedQty |-> movedQty, movedEpcs |-> <<>>]

transferNonRfid(e, sourceZoneId, destinationZoneId, skuId, qty) ==
  LET currentSource == getCurrentInventoryQty(e, sourceZoneId, skuId, "NON_RFID")
      movedQty == Min(Max(0, qty), currentSource)
      e1 == upsertSnapshot(e, sourceZoneId, skuId, currentSource - movedQty,
                           "NON_RFID", 0)
      currentDestination ==
        getCurrentInventoryQty(e1, destinationZoneId, skuId, "NON_RFID")
      e2 == upsertSnapshot(e1, destinationZoneId, skuId,
                           currentDestination + movedQty, "NON_RFID", 0)
  IN IF movedQty <= 0 THEN [e |-> e, movedQty |-> 0]
     ELSE [e |-> e2, movedQty |-> movedQty]

(* the loop over pendingRFIDPicks shared by removeCustomerItem (540-555) and
   transferConsumedPendingEpcsToZone (1378-1393): every consumed EPC of the
   basket item's picks is set present in zoneId, the pick is emptied *)
RECURSIVE restoreConsumedLoop(_, _, _, _, _, _)
restoreConsumedLoop(e, i, basketItemId, skuId, zoneId, at) ==
  IF i > Len(e.pendingRFIDPicks) THEN e
  ELSE IF e.pendingRFIDPicks[i].basketItemId # basketItemId
       THEN restoreConsumedLoop(e, i + 1, basketItemId, skuId, zoneId, at)
       ELSE LET epcs == e.pendingRFIDPicks[i].consumedEpcs
                RECURSIVE setAll(_, _)
                setAll(x, rest) ==
                  IF rest = <<>> THEN x
                  ELSE setAll(presenceSet(x, [epc |-> Head(rest),
                                               skuId |-> skuId,
                                               zoneId |-> zoneId,
                                               lastSeenAt |-> at]),
                              Tail(rest))
                e1 == setAll(e, epcs)
                e2 == [e1 EXCEPT !.pendingRFIDPicks[i].consumedEpcs = <<>>,
                                 !.pendingRFIDPicks[i].qtyRemaining = 0,
                                 !.pendingRFIDPicks[i].status = "COMPLETED"]
            IN restoreConsumedLoop(e2, i + 1, basketItemId, skuId, zoneId, at)

consumedCount(e, basketItemId) ==
  SumSeq(MapSeq(SelectSeq(e.pendingRFIDPicks,
                          LAMBDA p : p.basketItemId = basketItemId),
                LAMBDA p : Len(p.consumedEpcs)))

transferConsumedPendingEpcsToZone(e, basketItemId, skuId, destinationZoneId, at) ==
  [e |-> restoreConsumedLoop(e, 1, basketItemId, skuId, destinationZoneId, at),
   moved |-> consumedCount(e, basketItemId)]

-----------------------------------------------------------------------------
(* Customer cart *)

getReservedOpenQty(e, zoneId, skuId) ==
  SumSeq(MapSeq(SelectSeq(e.customerBasketItems,
                  LAMBDA item : item.status = "IN_CART"
                                /\ item.zoneId = zoneId
                                /\ item.skuId = skuId),
                LAMBDA item : IF sourceOfSku(item.skuId) = "RFID"
                              THEN Max(0, item.qty - item.pickedConfirmedQty)
                              ELSE item.qty))

(* availability that forgets the units already held in carts *)
getAvailableQtyIgnoringCarts(e, zoneId, skuId, source) ==
  Max(0, getCurrentInventoryQty(e, zoneId, skuId, source))

getAvailableQtyForCart(e, zoneId, skuId, source) ==
  LET currentQty == getCurrentInventoryQty(e, zoneId, skuId, source)
      reservedQty == getReservedOpenQty(e, zoneId, skuId)
  IN Max(0, currentQty - reservedQty)

(* lines 487-520 on the recalculated location *)
reserveItem(e2, payload) ==
  LET source == sourceOfSku(payload.skuId)
      availableQty == getAvailableQtyForCart(e2, payload.zoneId, payload.skuId,
                                             source)
      item == [customerId |-> payload.customerId, zoneId |-> payload.zoneId,
               skuId |-> payload.skuId, qty |-> payload.qty,
               pickedConfirmedQty |-> 0, status |-> "IN_CART"]
      e3 == [e2 EXCEPT !.customerBasketItems = Append(@, item)]
      e4 == IF source = "RFID"
            THEN [e3 EXCEPT !.pendingRFIDPicks =
                    Append(@, [basketItemId |-> Len(e3.customerBasketItems),
                               zoneId |-> payload.zoneId,
                               skuId |-> payload.skuId,
                               qtyRemaining |-> payload.qty,
                               consumedEpcs |-> <<>>,
                               status |-> "IN_PROGRESS"])]
            ELSE e3
  IN IF payload.qty > availableQty
     THEN [e |-> e2, status |-> "insufficient_inventory"]
     ELSE [e |-> evaluateMinMax(e4, payload.zoneId), status |-> "accepted"]

addCustomerItem(e, payload) ==
  LET e1 == [e EXCEPT !.nowCursor = payload.timestamp,
                      !.customers = @ \cup {payload.customerId}]
  IN IF ~zoneExists(e1, payload.zoneId)
     THEN [e |-> e1, status |-> "zone_not_found"]
     ELSE IF ~findZone(e1, payload.zoneId).isSalesLocation
     THEN [e |-> e1, status |-> "zone_not_orderable"]
     ELSE reserveItem(calculateZoneInventory(e1, payload.zoneId), payload)

(* removeCustomerItem without the loop of lines 540-555: the item is closed
   and its picks are completed, the consumed EPCs are not set present again *)
removeCustomerItemLosingTags(e, payload) ==
  LET e1 == [e EXCEPT !.nowCursor = payload.timestamp]
      id == payload.basketItemId
      item == e1.customerBasketItems[id]
      n1 == [e1 EXCEPT !.pendingRFIDPicks =
               [i \in 1..Len(@) |->
                  IF @[i].basketItemId = id
                  THEN [@[i] EXCEPT !.status = "COMPLETED", !.qtyRemaining = 0,
                                    !.consumedEpcs = <<>>]
                  ELSE @[i]],
                          !.customerBasketItems[id].pickedConfirmedQty = 0]
      e3 == [n1 EXCEPT !.customerBasketItems[id].status = "REMOVED"]
  IN IF id \notin 1..Len(e.customerBasketItems)
     THEN [e |-> e1, status |-> "not_found_or_closed", restoredQty |-> 0]
     ELSE IF item.status # "IN_CART"
     THEN [e |-> e1, status |-> "not_found_or_closed", restoredQty |-> 0]
     ELSE [e |-> calculateZoneInventory(e3, item.zoneId),
           status |-> "removed",
           restoredQty |-> consumedCount(e1, id)]

removeCustomerItem(e, payload) ==
  LET e1 == [e EXCEPT !.nowCursor = payload.timestamp]
      id == payload.basketItemId
      item == e1.customerBasketItems[id]
      restored == consumedCount(e1, id)
      r1 == restoreConsumedLoop(e1, 1, id, item.skuId, item.zoneId,
                                payload.timestamp)
      r2 == IF item.pickedConfirmedQty > restored
            THEN createExternalRFIDForDestination(r1, item.skuId, item.zoneId,
                   item.pickedConfirmedQty - restored, payload.timestamp)
            ELSE r1
      r3 == [r2 EXCEPT !.customerBasketItems[id].pickedConfirmedQty = 0]
      n1 == [e1 EXCEPT !.pendingRFIDPicks =
               [i \in 1..Len(@) |->
                  IF @[i].basketItemId = id
                  THEN [@[i] EXCEPT !.status = "COMPLETED", !.qtyRemaining = 0]
                  ELSE @[i]]]
      e2 == IF sourceOfSku(item.skuId) = "RFID" THEN r3 ELSE n1
      e3 == [e2 EXCEPT !.customerBasketItems[id].status = "REMOVED"]
  IN IF id \notin 1..Len(e.customerBasketItems)
     THEN [e |-> e1, status |-> "not_found_or_closed", restoredQty |-> 0]
     ELSE IF item.status # "IN_CART"
     THEN [e |-> e1, status |-> "not_found_or_closed", restoredQty |-> 0]
     ELSE [e |-> calculateZoneInventory(e3, item.zoneId),
           status |-> "removed",
           restoredQty |-> IF sourceOfSku(item.skuId) = "RFID"
                           THEN Max(restored, item.pickedConfirmedQty)
                           ELSE 0]

-----------------------------------------------------------------------------
(* Personalisation routing and checkout *)

availableAtSource(e, sourceZoneId, skuId, source) ==
  Max(0, getCurrentInventoryQty(e, sourceZoneId, skuId, source)
         - getReservedTaskQtyFromSource(e, sourceZoneId, skuId, 0))

buildManualSourceCandidates(e, destinationZoneId, skuId, source, preferredSourceZoneId) ==
  LET preferred == <<[sourceZoneId |-> preferredSourceZoneId, sortOrder |-> 1,
                      availableQty |-> availableAtSource(e, preferredSourceZoneId,
                                                         skuId, source)]>>
      others == SelectSeq(sortedSources(findZone(e, destinationZoneId)),
                          LAMBDA s : s.sourceZoneId # preferredSourceZoneId)
  IN IF ~zoneExists(e, destinationZoneId) THEN preferred
     ELSE preferred \o
          MapSeq(others,
                 LAMBDA s : [sourceZoneId |-> s.sourceZoneId,
                             sortOrder |-> s.sortOrder + 1,
                             availableQty |->
                               availableAtSource(e, s.sourceZoneId, skuId, source)])

getProjectedSupplyForOrigin(e, zone, skuId, source) ==
  LET currentInOrigin == getCurrentInventoryQty(e, zone.id, skuId, source)
      openInboundQty ==
        SumSeq(MapSeq(SelectSeq(e.tasks,
                        LAMBDA t : t.zoneId = zone.id /\ t.skuId = skuId
                                   /\ taskIsOpen(t.status)),
                      LAMBDA t : Max(0, t.deficitQty)))
      sourcePotentialQty ==
        SumSeq(MapSeq(sortedSources(zone),
                      LAMBDA s : availableAtSource(e, s.sourceZoneId, skuId, source)))
  IN currentInOrigin + openInboundQty + sourcePotentialQty

createPersonalizationTask(e, destinationZoneId, skuId, qty, source) ==
  LET normalizedQty == Max(1, qty)
      sourceCandidates == buildManualSourceCandidates(e, destinationZoneId, skuId,
                            source, CASHIER_STORAGE_ZONE_ID)
      currentDestinationQty ==
        getCurrentInventoryQty(e, destinationZoneId, skuId, source)
      task == [ruleId |-> <<"rule-printing-sale", destinationZoneId, skuId, source>>,
               zoneId |-> destinationZoneId,
               skuId |-> skuId,
               sourceCandidates |-> sourceCandidates,
               sourceZoneId |-> defaultSource(NONE, sourceCandidates),
               status |-> "CREATED",
               triggerQty |-> currentDestinationQty,
               deficitQty |-> normalizedQty,
               targetQty |-> currentDestinationQty + normalizedQty,
               assignedStaffId |-> NONE,
               confirmedQty |-> 0,
               closeReason |-> NONE,
               createdAt |-> e.nowCursor]
      e1 == [e EXCEPT !.tasks = Append(@, task)]
  IN autoAssignPendingTasks(pushTaskAudit(e1, Len(e.tasks) + 1, "CREATED"),
                            e.nowCursor)

(* lines 1361-1366 on the refreshed snapshots *)
routePersonalization(e3, item, source) ==
  LET projectedSupply ==
        getProjectedSupplyForOrigin(e3, findZone(e3, item.zoneId), item.skuId,
                                    source)
      destinationZoneId == IF projectedSupply <= 0 THEN PRINTING_WALL_ZONE_ID
                           ELSE item.zoneId
  IN createPersonalizationTask(e3, destinationZoneId, item.skuId, item.qty,
                               source)

(* lines 1334-1343 on the result of the pending-pick transfer *)
topUpExternal(t1, skuId, pickedFromReads, timestamp) ==
  IF pickedFromReads > t1.moved
  THEN createExternalRFIDForDestination(t1.e, skuId, CASHIER_STORAGE_ZONE_ID,
                                        pickedFromReads - t1.moved, timestamp)
  ELSE t1.e

(* lines 1344-1349 *)
moveOutstanding(r1, id, item, outstanding, timestamp) ==
  [(IF outstanding > 0
    THEN moveRFIDEpcs(r1, item.zoneId, CASHIER_STORAGE_ZONE_ID, item.skuId,
                      outstanding, timestamp).e
    ELSE r1)
   EXCEPT !.customerBasketItems[id].pickedConfirmedQty = 0]

(* lines 1357-1366 *)
refreshAndRoute(e1, item, source) ==
  routePersonalization(
    calculateZoneInventory(calculateZoneInventory(e1, item.zoneId),
                           CASHIER_STORAGE_ZONE_ID),
    item, source)

(* lines 1350-1356 on the result of the ledger transfer *)
routeNonRfid(n1, item, source) ==
  IF n1.movedQty <= 0 THEN n1.e ELSE refreshAndRoute(n1.e, item, source)

processPersonalizationSale(e, id, source, timestamp) ==
  LET item == e.customerBasketItems[id]
      pickedFromReads == Max(0, item.pickedConfirmedQty)
  IN IF ~zoneExists(e, CASHIER_STORAGE_ZONE_ID) \/ ~zoneExists(e, item.zoneId)
     THEN e
     ELSE IF source = "RFID"
     THEN refreshAndRoute(
            moveOutstanding(
              topUpExternal(
                transferConsumedPendingEpcsToZone(e, id, item.skuId,
                  CASHIER_STORAGE_ZONE_ID, timestamp),
                item.skuId, pickedFromReads, timestamp),
              id, item, Max(0, item.qty - pickedFromReads), timestamp),
            item, source)
     ELSE routeNonRfid(
            transferNonRfid(e, item.zoneId, CASHIER_STORAGE_ZONE_ID, item.skuId,
                            item.qty),
            item, source)

(* lines 590-610: the sale of one basket item *)
sellItem(e, id, timestamp) ==
  LET item == e.customerBasketItems[id]
      source == sourceOfSku(item.skuId)
      outstanding == Max(0, item.qty - item.pickedConfirmedQty)
  IN IF item.skuId \in personalizableSkuIds
     THEN processPersonalizationSale(e, id, source, timestamp)
     ELSE IF source = "NON_RFID"
     THEN ingestSalesEvent(e, [skuId |-> item.skuId,
                               zoneId |-> item.zoneId,
                               eventType |-> "SALE",
                               qty |-> item.qty,
                               timestamp |-> timestamp]).e
     ELSE IF outstanding > 0
     THEN deductRFIDImmediate(e, item.zoneId, item.skuId, outstanding)
     ELSE e

(* line 612 *)
markSold(e1, id) ==
  [e1 EXCEPT !.customerBasketItems[id].status = "SOLD"]

RECURSIVE checkoutItems(_, _, _)
checkoutItems(e, items, timestamp) ==
  IF items = <<>> THEN e
  ELSE checkoutItems(markSold(sellItem(e, Head(items), timestamp), Head(items)),
                     Tail(items), timestamp)

(* Set insertion order of affectedZones *)
RECURSIVE affectedZoneOrder(_, _, _)
affectedZoneOrder(e, items, acc) ==
  IF items = <<>> THEN acc
  ELSE LET z == e.customerBasketItems[Head(items)].zoneId
           a1 == IF z \in SeqToSet(acc) THEN acc ELSE Append(acc, z)
           a2 == IF CASHIER_STORAGE_ZONE_ID \in SeqToSet(a1) THEN a1
                 ELSE Append(a1, CASHIER_STORAGE_ZONE_ID)
           a3 == IF PRINTING_WALL_ZONE_ID \in SeqToSet(a2) THEN a2
                 ELSE Append(a2, PRINTING_WALL_ZONE_ID)
       IN affectedZoneOrder(e, Tail(items), a3)

RECURSIVE calculateZones(_, _)
calculateZones(e, zoneIds) ==
  IF zoneIds = <<>> THEN e
  ELSE calculateZones(calculateZoneInventory(e, Head(zoneIds)), Tail(zoneIds))

(* lines 619-625 *)
completePicks(e2, customerId) ==
  [e2 EXCEPT !.pendingRFIDPicks =
     [i \in 1..Len(@) |->
        IF e2.customerBasketItems[@[i].basketItemId].customerId = customerId
        THEN [@[i] EXCEPT !.status = "COMPLETED", !.qtyRemaining = 0]
        ELSE @[i]]]

checkoutCustomer(e, customerId, timestamp) ==
  LET e1 == [e EXCEPT !.nowCursor = timestamp]
      items == SelectSeq(IndexSeq(e1.customerBasketItems),
                 LAMBDA i : e1.customerBasketItems[i].customerId = customerId
                            /\ e1.customerBasketItems[i].status = "IN_CART")
  IN IF Len(items) = 0 THEN [e |-> e1, status |-> "empty_cart"]
     ELSE [e |-> calculateZones(
                   completePicks(checkoutItems(e1, items, timestamp), customerId),
                   affectedZoneOrder(e1, items, <<>>)),
           status |-> "checked_out"]

-----------------------------------------------------------------------------
(* Task work flow *)

RECURSIVE appendNew(_, _, _)
appendNew(acc, ids, excluded) ==
  IF ids = <<>> THEN acc
  ELSE IF Head(ids) \in excluded \/ Head(ids) \in SeqToSet(acc)
       THEN appendNew(acc, Tail(ids), excluded)
       ELSE appendNew(Append(acc, Head(ids)), Tail(ids), excluded)

getFallbackSourceZoneIds(e, task, exclude) ==
  LET taskSources == MapSeq(SortByKey(task.sourceCandidates,
                                      LAMBDA s : s.sortOrder),
                            LAMBDA s : s.sourceZoneId)
      fromTask == appendNew(<<>>, taskSources, exclude)
      zoneSources == IF zoneExists(e, task.zoneId)
                     THEN MapSeq(sortedSources(findZone(e, task.zoneId)),
                                 LAMBDA s : s.sourceZoneId)
                     ELSE <<>>
  IN appendNew(fromTask, zoneSources, exclude)

(* lines 658-670: try the other sources in order until one moves stock *)
RECURSIVE fallbackLoop(_, _, _, _, _)
fallbackLoop(e, taskId, fallbackSources, requestedQty, transfer) ==
  IF fallbackSources = <<>> THEN [e |-> e, transfer |-> transfer]
  ELSE LET task == e.tasks[taskId]
           candidateTransfer ==
             applyTransferFromSource(e, Head(fallbackSources), task.zoneId,
                                     task.skuId, requestedQty)
       IN IF candidateTransfer.movedQty <= 0
          THEN fallbackLoop(candidateTransfer.e, taskId, Tail(fallbackSources),
                            requestedQty, transfer)
          ELSE [e |-> [candidateTransfer.e EXCEPT
                         !.tasks[taskId].sourceZoneId = Head(fallbackSources)],
                transfer |-> [movedQty |-> candidateTransfer.movedQty,
                              movedEpcs |-> candidateTransfer.movedEpcs]]

(* lines 644-654: the transfer from the chosen source; with no source at
   all the requested quantity counts as moved *)
firstTransfer(e1, task, sourceZoneId, requestedQty) ==
  IF sourceZoneId # NONE
  THEN applyTransferFromSource(e1, sourceZoneId, task.zoneId, task.skuId,
                               requestedQty)
  ELSE [e |-> e1, movedQty |-> requestedQty, movedEpcs |-> <<>>]

(* lines 652-671 on the result of the first transfer *)
tryFallbacks(first, taskId, sourceZoneId, requestedQty) ==
  LET e2 == IF sourceZoneId # NONE
            THEN [first.e EXCEPT !.tasks[taskId].sourceZoneId = sourceZoneId]
            ELSE first.e
      transfer0 == [movedQty |-> first.movedQty, movedEpcs |-> first.movedEpcs]
      attemptedSources == IF sourceZoneId # NONE THEN {sourceZoneId} ELSE {}
  IN IF first.movedQty <= 0
     THEN fallbackLoop(e2, taskId,
            getFallbackSourceZoneIds(e2, e2.tasks[taskId], attemptedSources),
            requestedQty, transfer0)
     ELSE [e |-> e2, transfer |-> transfer0]

(* lines 698-700 *)
recalculateSource(e6, sourceZoneId, zoneId) ==
  IF sourceZoneId # NONE /\ sourceZoneId # zoneId
  THEN calculateZoneInventory(e6, sourceZoneId)
  ELSE e6

(* lines 673-701 on the result of the transfers *)
closeConfirmed(fb, taskId, payload, sourceZoneId) ==
  LET task == fb.e.tasks[taskId]
      movedQty == fb.transfer.movedQty
      e3 == [fb.e EXCEPT
               !.tasks[taskId].confirmedQty = movedQty,
               !.replenishmentConfirmations =
                  addToLedger(@, fb.e, task.zoneId, task.skuId, movedQty,
                              payload.confirmedAt)]
      e4 == pushTaskAudit(e3, taskId, "CONFIRMED")
      partial == movedQty < Max(0, task.deficitQty)
  IN IF movedQty <= 0 THEN [e |-> fb.e, result |-> "null"]
     ELSE [e |-> recalculateSource(
                   calculateZoneInventory(
                     closeReplenishmentTask(e4, taskId,
                       IF partial THEN "confirmed_partial" ELSE "confirmed"),
                     task.zoneId),
                   sourceZoneId, task.zoneId),
           result |-> "confirmed"]

(* payload.sourceZoneId = NONE stands for the omitted field;
   result "null" is the null return *)
confirmTask(e, taskId, payload) ==
  LET task == e.tasks[taskId]
      e1 == [e EXCEPT !.nowCursor = payload.confirmedAt]
      requestedQty == Max(0, payload.confirmedQty)
      sourceZoneId == IF payload.sourceZoneId # NONE THEN payload.sourceZoneId
                      ELSE task.sourceZoneId
  IN IF taskId \notin 1..Len(e.tasks) THEN [e |-> e, result |-> "null"]
     ELSE IF task.status # "IN_PROGRESS" THEN [e |-> e, result |-> "null"]
     ELSE closeConfirmed(
            tryFallbacks(firstTransfer(e1, task, sourceZoneId, requestedQty),
                         taskId, sourceZoneId, requestedQty),
            taskId, payload, sourceZoneId)

staffActive(e, staffId) ==
  \E i \in 1..Len(e.staff) : e.staff[i].id = staffId /\ e.staff[i].activeShift

findStaff(e, staffId) ==
  e.staff[CHOOSE i \in 1..Len(e.staff) : e.staff[i].id = staffId]

assignTask(e, payload) ==
  LET task == e.tasks[payload.taskId]
      member == findStaff(e, payload.staffId)
      e1 == [e EXCEPT !.tasks[payload.taskId].assignedStaffId = member.id,
                      !.tasks[payload.taskId].status = "ASSIGNED",
                      !.nowCursor = payload.at]
  IN IF payload.taskId \notin 1..Len(e.tasks)
     THEN [e |-> e, status |-> "task_not_found"]
     ELSE IF ~taskIsOpen(task.status) THEN [e |-> e, status |-> "task_not_open"]
     ELSE IF ~staffActive(e, payload.staffId)
     THEN [e |-> e, status |-> "staff_not_active"]
     ELSE IF ~member.scopeAllZones /\ task.zoneId \notin member.zoneScopeZoneIds
     THEN [e |-> e, status |-> "staff_not_eligible_for_zone"]
     ELSE [e |-> pushTaskAudit(e1, payload.taskId, "ASSIGNED"),
           status |-> "assigned"]

(* startTask without the refusal of a task assigned to another member *)
startTaskOfAnyAssignee(e, payload) ==
  LET task == e.tasks[payload.taskId]
      member == findStaff(e, payload.staffId)
      memberInScope == member.scopeAllZones
                       \/ task.zoneId \in member.zoneScopeZoneIds
      outOfScopeFallbackAssigned ==
        ~memberInScope /\ task.assignedStaffId = member.id
        /\ ~hasAnyAssignableStaffInScope(e, task.zoneId)
      e1 == [e EXCEPT !.tasks[payload.taskId].assignedStaffId = member.id,
                      !.tasks[payload.taskId].status = "IN_PROGRESS",
                      !.nowCursor = payload.at]
  IN IF payload.taskId \notin 1..Len(e.tasks)
     THEN [e |-> e, status |-> "task_not_found"]
     ELSE IF ~taskIsOpen(task.status) THEN [e |-> e, status |-> "task_not_open"]
     ELSE IF task.status = "IN_PROGRESS"
     THEN [e |-> e, status |-> "already_in_progress"]
     ELSE IF ~staffActive(e, payload.staffId)
     THEN [e |-> e, status |-> "staff_not_active"]
     ELSE IF ~memberInScope /\ ~outOfScopeFallbackAssigned
     THEN [e |-> e, status |-> "staff_not_eligible_for_zone"]
     ELSE [e |-> pushTaskAudit(e1, payload.taskId, "STARTED"),
           status |-> "started"]

startTask(e, payload) ==
  LET task == e.tasks[payload.taskId]
      member == findStaff(e, payload.staffId)
      memberInScope == member.scopeAllZones
                       \/ task.zoneId \in member.zoneScopeZoneIds
      outOfScopeFallbackAssigned ==
        ~memberInScope /\ task.assignedStaffId = member.id
        /\ ~hasAnyAssignableStaffInScope(e, task.zoneId)
      e1 == [e EXCEPT !.tasks[payload.taskId].assignedStaffId = member.id,
                      !.tasks[payload.taskId].status = "IN_PROGRESS",
                      !.nowCursor = payload.at]
  IN IF payload.taskId \notin 1..Len(e.tasks)
     THEN [e |-> e, status |-> "task_not_found"]
     ELSE IF ~taskIsOpen(task.status) THEN [e |-> e, status |-> "task_not_open"]
     ELSE IF task.status = "IN_PROGRESS"
     THEN [e |-> e, status |-> "already_in_progress"]
     ELSE IF ~staffActive(e, payload.staffId)
     THEN [e |-> e, status |-> "staff_not_active"]
     ELSE IF ~memberInScope /\ ~outOfScopeFallbackAssigned
     THEN [e |-> e, status |-> "staff_not_eligible_for_zone"]
     ELSE IF task.assignedStaffId # NONE /\ task.assignedStaffId # member.id
     THEN [e |-> e, status |-> "task_assigned_to_other_staff"]
     ELSE [e |-> pushTaskAudit(e1, payload.taskId, "STARTED"),
           status |-> "started"]

-----------------------------------------------------------------------------
(* Receiving confirmation *)

orderExists(e, orderId) ==
  \E i \in 1..Len(e.receivingOrders) : e.receivingOrders[i].id = orderId

orderIndex(e, orderId) ==
  CHOOSE i \in 1..Len(e.receivingOrders) : e.receivingOrders[i].id = orderId

RECURSIVE recalculateLoop(_, _, _)
recalculateLoop(e, sourceZoneId, i) ==
  IF i > Len(e.zones) THEN e
  ELSE LET zone == e.zones[i]
       IN IF zone.id = sourceZoneId
             \/ ~(\E k \in 1..Len(zone.replenishmentSources) :
                    zone.replenishmentSources[k].sourceZoneId = sourceZoneId)
          THEN recalculateLoop(e, sourceZoneId, i + 1)
          ELSE recalculateLoop(calculateZoneInventory(e, zone.id),
                               sourceZoneId, i + 1)

recalculateZonesDependingOnSource(e, sourceZoneId) ==
  recalculateLoop(e, sourceZoneId, 1)

ruleOfTask(e, task) ==
  SelectSeq(e.rules, LAMBDA r : ruleIdOf(r.zoneId, r.skuId, r.source) = task.ruleId)

RECURSIVE refreshCandidatesLoop(_, _)
refreshCandidatesLoop(e, i) ==
  IF i > Len(e.tasks) THEN e
  ELSE LET task == e.tasks[i]
           found == ruleOfTask(e, task)
           candidates == buildSourceCandidates(e, found[1], i)
           keepsSource ==
             task.sourceZoneId # NONE
             /\ \E k \in 1..Len(candidates) :
                   candidates[k].sourceZoneId = task.sourceZoneId
       IN IF ~taskIsOpen(task.status) THEN refreshCandidatesLoop(e, i + 1)
          ELSE IF Len(found) = 0 THEN refreshCandidatesLoop(e, i + 1)
          ELSE IF ~found[1].isActive THEN refreshCandidatesLoop(e, i + 1)
          ELSE refreshCandidatesLoop(
                 [e EXCEPT !.tasks[i].sourceCandidates = candidates,
                           !.tasks[i].sourceZoneId =
                              IF keepsSource THEN @
                              ELSE defaultSource(NONE, candidates)],
                 i + 1)

refreshOpenTaskSourceCandidates(e) == refreshCandidatesLoop(e, 1)

(* lines 819-822 on the engine that holds the generated EPCs *)
creditRfidDestination(x1, order, movedQty) ==
  IF movedQty > 0
  THEN upsertSnapshot(x1, order.destinationZoneId, order.skuId,
         getCurrentInventoryQty(x1, order.destinationZoneId, order.skuId, "RFID")
           + movedQty,
         "RFID", 90)
  ELSE x1

(* lines 813-822 *)
receiveExternalRfid(e1, order, confirmedAt) ==
  [e |-> creditRfidDestination(
           createExternalRFIDForDestination(e1, order.skuId,
             order.destinationZoneId, order.requestedQty, confirmedAt),
           order, Max(0, order.requestedQty)),
   movedQty |-> Max(0, order.requestedQty)]

(* lines 824-831 on the result of moveRFIDEpcs *)
receiveInternalRfid(m1) ==
  [e |-> m1.e, movedQty |-> Len(m1.movedEpcs)]

(* lines 835-846 *)
debitNonRfidSource(e1, order, sourceCurrent, movedQty, confirmedAt) ==
  IF movedQty > 0
  THEN [upsertSnapshot(e1, order.sourceLocationId, order.skuId,
                       sourceCurrent - movedQty, "NON_RFID", 0)
        EXCEPT !.replenishmentConfirmations =
          addToLedger(@, e1, order.sourceLocationId, order.skuId,
                      0 - movedQty, confirmedAt)]
  ELSE e1

(* lines 848-858 *)
creditNonRfidDestination(n1, order, movedQty, confirmedAt) ==
  IF movedQty > 0
  THEN [upsertSnapshot(n1, order.destinationZoneId, order.skuId,
          getCurrentInventoryQty(n1, order.destinationZoneId, order.skuId,
                                 "NON_RFID") + movedQty,
          "NON_RFID", 0)
        EXCEPT !.replenishmentConfirmations =
          addToLedger(@, n1, order.destinationZoneId, order.skuId,
                      movedQty, confirmedAt)]
  ELSE n1

(* lines 833-859 *)
receiveNonRfid(e1, order, sourceIsExternal, confirmedAt) ==
  LET sourceCurrent == getCurrentInventoryQty(e1, order.sourceLocationId,
                                              order.skuId, "NON_RFID")
      movedQty == IF sourceIsExternal THEN order.requestedQty
                  ELSE Min(order.requestedQty, sourceCurrent)
  IN [e |-> creditNonRfidDestination(
              IF sourceIsExternal THEN e1
              ELSE debitNonRfidSource(e1, order, sourceCurrent, movedQty,
                                      confirmedAt),
              order, movedQty, confirmedAt),
      movedQty |-> movedQty]

(* lines 873-876 *)
recalculateSourceSide(e5, order, sourceIsExternal) ==
  IF ~sourceIsExternal
  THEN recalculateZonesDependingOnSource(
         calculateZoneInventory(e5, order.sourceLocationId),
         order.sourceLocationId)
  ELSE e5

(* lines 863-867 *)
markOrderConfirmed(e2, k, movedQty) ==
  [e2 EXCEPT !.receivingOrders[k].confirmedQty = movedQty,
             !.receivingOrders[k].status = "CONFIRMED"]

(* lines 861-879 on the result of the stock movement *)
finishReceiving(mv, k, order, sourceIsExternal, confirmedAt) ==
  IF mv.movedQty <= 0 THEN [e |-> mv.e, status |-> "no_inventory_moved"]
  ELSE [e |-> autoAssignPendingReceivingOrders(
                autoAssignPendingTasks(
                  refreshOpenTaskSourceCandidates(
                    recalculateSourceSide(
                      recalculateZonesDependingOnSource(
                        calculateZoneInventory(
                          markOrderConfirmed(mv.e, k, mv.movedQty),
                          order.destinationZoneId),
                        order.destinationZoneId),
                      order, sourceIsExternal)),
                  confirmedAt),
                confirmedAt),
        status |-> IF mv.movedQty < order.requestedQty THEN "confirmed_partial"
                   ELSE "confirmed"]

confirmReceivingOrder(e, orderId, payload) ==
  LET k == orderIndex(e, orderId)
      order == e.receivingOrders[k]
      e1 == [e EXCEPT !.nowCursor = payload.confirmedAt]
      sourceIsExternal == startsWithExternal(order.sourceLocationId)
  IN IF ~orderExists(e, orderId) THEN [e |-> e, status |-> "order_not_found"]
     ELSE IF order.status # "IN_TRANSIT" THEN [e |-> e, status |-> "order_not_open"]
     ELSE finishReceiving(
            IF order.source = "RFID"
            THEN IF sourceIsExternal
                 THEN receiveExternalRfid(e1, order, payload.confirmedAt)
                 ELSE receiveInternalRfid(
                        moveRFIDEpcs(e1, order.sourceLocationId,
                          order.destinationZoneId, order.skuId,
                          order.requestedQty, payload.confirmedAt))
            ELSE receiveNonRfid(e1, order, sourceIsExternal, payload.confirmedAt),
            k, order, sourceIsExternal, payload.confirmedAt)

-----------------------------------------------------------------------------
(* Rules and locations maintained at run time.  An optional field of a
   payload is a field the payload record may lack. *)

ruleHits(e, zoneId, skuId, source) ==
  SelectSeq(IndexSeq(e.rules),
            LAMBDA i : e.rules[i].zoneId = zoneId /\ e.rules[i].skuId = skuId
                       /\ e.rules[i].source = source)

(* upsertRule with the reactivation of an existing rule inverted:
   existing.isActive = !existing.isActive *)
upsertRuleTogglingActive(e, payload) ==
  LET hits == ruleHits(e, payload.zoneId, payload.skuId, payload.source)
      i == hits[1]
      rule == [zoneId |-> payload.zoneId, skuId |-> payload.skuId,
               source |-> payload.source,
               minQty |-> payload.minQty, maxQty |-> payload.maxQty,
               priority |-> IF "priority" \in DOMAIN payload
                            THEN payload.priority ELSE 2,
               isActive |-> TRUE, updatedAt |-> e.nowCursor]
  IN IF Len(hits) > 0
     THEN [e |-> calculateZoneInventory(
                   [e EXCEPT !.rules[i].minQty = payload.minQty,
                             !.rules[i].maxQty = payload.maxQty,
                             !.rules[i].priority =
                                IF "priority" \in DOMAIN payload
                                THEN payload.priority ELSE @,
                             !.rules[i].updatedAt = e.nowCursor,
                             !.rules[i].isActive = ~@],
                   payload.zoneId),
           id |-> ruleIdOf(payload.zoneId, payload.skuId, payload.source)]
     ELSE [e |-> calculateZoneInventory([e EXCEPT !.rules = Append(@, rule)],
                                        payload.zoneId),
           id |-> ruleIdOf(payload.zoneId, payload.skuId, payload.source)]

(* returns the engine and the id of the rule written *)
upsertRule(e, payload) ==
  LET hits == ruleHits(e, payload.zoneId, payload.skuId, payload.source)
      i == hits[1]
      rule == [zoneId |-> payload.zoneId, skuId |-> payload.skuId,
               source |-> payload.source,
               minQty |-> payload.minQty, maxQty |-> payload.maxQty,
               priority |-> IF "priority" \in DOMAIN payload
                            THEN payload.priority ELSE 2,
               isActive |-> TRUE, updatedAt |-> e.nowCursor]
  IN IF Len(hits) > 0
     THEN [e |-> calculateZoneInventory(
                   [e EXCEPT !.rules[i].minQty = payload.minQty,
                             !.rules[i].maxQty = payload.maxQty,
                             !.rules[i].priority =
                                IF "priority" \in DOMAIN payload
                                THEN payload.priority ELSE @,
                             !.rules[i].updatedAt = e.nowCursor,
                             !.rules[i].isActive = TRUE],
                   payload.zoneId),
           id |-> ruleIdOf(payload.zoneId, payload.skuId, payload.source)]
     ELSE [e |-> calculateZoneInventory([e EXCEPT !.rules = Append(@, rule)],
                                        payload.zoneId),
           id |-> ruleIdOf(payload.zoneId, payload.skuId, payload.source)]

(* the loop of deleteRule / updateLocation over this.tasks: every open task
   selected by Hit is REJECTED with the reason and audited as CANCELLED *)
RECURSIVE rejectTasks(_, _, _, _)
rejectTasks(e, i, Hit(_), reason) ==
  IF i > Len(e.tasks) THEN e
  ELSE IF Hit(e.tasks[i]) /\ taskIsOpen(e.tasks[i].status)
       THEN rejectTasks(
              pushTaskAudit([e EXCEPT !.tasks[i].status = "REJECTED",
                                      !.tasks[i].closeReason = reason],
                            i, "CANCELLED"),
              i + 1, Hit, reason)
       ELSE rejectTasks(e, i + 1, Hit, reason)

deleteRule(e, ruleId) ==
  LET hits == SelectSeq(IndexSeq(e.rules),
                LAMBDA i : ruleIdOf(e.rules[i].zoneId, e.rules[i].skuId,
                                    e.rules[i].source) = ruleId)
      i == hits[1]
      e1 == [e EXCEPT !.rules[i].isActive = FALSE,
                      !.rules[i].updatedAt = e.nowCursor]
  IN IF Len(hits) = 0 THEN [e |-> e, status |-> "not_found", zoneId |-> NONE]
     ELSE IF ~e.rules[i].isActive
     THEN [e |-> e, status |-> "already_inactive", zoneId |-> e.rules[i].zoneId]
     ELSE [e |-> calculateZoneInventory(
                   rejectTasks(e1, 1, LAMBDA t : t.ruleId = ruleId, "rule_deleted"),
                   e.rules[i].zoneId),
           status |-> "deleted", zoneId |-> e.rules[i].zoneId]

zoneIndex(e, zoneId) == CHOOSE i \in 1..Len(e.zones) : e.zones[i].id = zoneId

(* unique.set(sourceZoneId, sortOrder) over the payload's sources: a repeated
   source keeps its first position and takes the last sortOrder *)
RECURSIVE uniqueSources(_, _, _, _)
uniqueSources(e, zoneId, sources, acc) ==
  IF sources = <<>> THEN acc
  ELSE LET source == Head(sources)
           at == SelectSeq(IndexSeq(acc),
                           LAMBDA k : acc[k].sourceZoneId = source.sourceZoneId)
       IN IF ~startsWithExternal(source.sourceZoneId)
             /\ ~zoneExists(e, source.sourceZoneId)
          THEN uniqueSources(e, zoneId, Tail(sources), acc)
          ELSE IF source.sourceZoneId = zoneId
          THEN uniqueSources(e, zoneId, Tail(sources), acc)
          ELSE IF Len(at) > 0
          THEN uniqueSources(e, zoneId, Tail(sources),
                             [acc EXCEPT ![at[1]].sortOrder = source.sortOrder])
          ELSE uniqueSources(e, zoneId, Tail(sources), Append(acc, source))

(* updateLocation without the removal loop of lines 1013-1027 *)
updateLocationKeepingTasks(e, payload) ==
  LET z == zoneIndex(e, payload.zoneId)
      zone == e.zones[z]
      e1 == IF "isSalesLocation" \in DOMAIN payload
            THEN [e EXCEPT !.zones[z].isSalesLocation = payload.isSalesLocation]
            ELSE e
      newSources == SortByKey(uniqueSources(e, zone.id,
                                            payload.replenishmentSources, <<>>),
                              LAMBDA s : s.sortOrder)
      e2 == IF "replenishmentSources" \in DOMAIN payload
            THEN [e1 EXCEPT !.zones[z].replenishmentSources = newSources]
            ELSE e1
  IN IF ~zoneExists(e, payload.zoneId)
     THEN [e |-> e, status |-> "zone_not_found"]
     ELSE [e |-> calculateZoneInventory(e2, zone.id), status |-> "updated"]

updateLocation(e, payload) ==
  LET z == zoneIndex(e, payload.zoneId)
      zone == e.zones[z]
      previousSourceIds ==
        {zone.replenishmentSources[k].sourceZoneId :
           k \in 1..Len(zone.replenishmentSources)}
      e1 == IF "isSalesLocation" \in DOMAIN payload
            THEN [e EXCEPT !.zones[z].isSalesLocation = payload.isSalesLocation]
            ELSE e
      newSources == SortByKey(uniqueSources(e, zone.id,
                                            payload.replenishmentSources, <<>>),
                              LAMBDA s : s.sortOrder)
      removedSourceIds ==
        previousSourceIds \ {newSources[k].sourceZoneId : k \in 1..Len(newSources)}
      e2 == IF "replenishmentSources" \in DOMAIN payload
            THEN rejectTasks([e1 EXCEPT !.zones[z].replenishmentSources = newSources],
                             1,
                             LAMBDA t : t.zoneId = zone.id
                                        /\ t.sourceZoneId \in removedSourceIds,
                             "source_removed")
            ELSE e1
  IN IF ~zoneExists(e, payload.zoneId)
     THEN [e |-> e, status |-> "zone_not_found"]
     ELSE [e |-> calculateZoneInventory(e2, zone.id), status |-> "updated"]

(* polygonPoints is mapPolygon.length *)
createLocation(e, payload) ==
  LET sources == IF "replenishmentSources" \in DOMAIN payload
                 THEN payload.replenishmentSources ELSE <<>>
      zone == [id |-> payload.zoneId,
               isSalesLocation |-> payload.isSalesLocation,
               replenishmentSources |->
                 SortByKey(
                   SelectSeq(sources,
                     LAMBDA s : s.sourceZoneId # payload.zoneId
                                /\ (startsWithExternal(s.sourceZoneId)
                                    \/ zoneExists(e, s.sourceZoneId))),
                   LAMBDA s : s.sortOrder)]
  IN IF payload.zoneId = "" THEN [e |-> e, status |-> "invalid_zone_id"]
     ELSE IF payload.polygonPoints < 3 THEN [e |-> e, status |-> "invalid_polygon"]
     ELSE IF zoneExists(e, payload.zoneId) THEN [e |-> e, status |-> "zone_exists"]
     ELSE [e |-> [e EXCEPT !.zones = Append(@, zone)], status |-> "created"]

-----------------------------------------------------------------------------
(* Dataset handed to the constructor: the shape of sampleDataset, small
   quantities. zone-shelf-b has no replenishment source. *)

DatasetZones ==
  << [id |-> "zone-shelf-a", isSalesLocation |-> TRUE,
      replenishmentSources |->
        <<[sourceZoneId |-> "zone-warehouse", sortOrder |-> 1]>>],
     [id |-> "zone-shelf-b", isSalesLocation |-> TRUE,
      replenishmentSources |-> <<>>],
     [id |-> "zone-warehouse", isSalesLocation |-> FALSE,
      replenishmentSources |->
        <<[sourceZoneId |-> "external-esbo", sortOrder |-> 1]>>] >>

DatasetRules ==
  << [zoneId |-> "zone-shelf-a", skuId |-> "SKU-NR-1", source |-> "NON_RFID",
      minQty |-> 2, maxQty |-> 4, isActive |-> TRUE, priority |-> 1, updatedAt |-> 0],
     [zoneId |-> "zone-shelf-b", skuId |-> "SKU-RFID-1", source |-> "RFID",
      minQty |-> 1, maxQty |-> 2, isActive |-> TRUE, priority |-> 1, updatedAt |-> 0],
     [zoneId |-> "zone-warehouse", skuId |-> "SKU-RFID-1", source |-> "RFID",
      minQty |-> 1, maxQty |-> 3, isActive |-> TRUE, priority |-> 1, updatedAt |-> 0] >>

DatasetMapping ==
  << [epc |-> 1, skuId |-> "SKU-RFID-1", activeFrom |-> 0],
     [epc |-> 2, skuId |-> "SKU-RFID-1", activeFrom |-> 0],
     [epc |-> 3, skuId |-> "SKU-RFID-1", activeFrom |-> 0] >>

(* inventorySeed: NON_RFID rows counted at 09:55, version 1 *)
DatasetSeed ==
  (<<"zone-shelf-a", "SKU-NR-1">> :> [qty |-> 3, lastCalculatedAt |-> SeedBaselineAt])
  @@ (<<"zone-warehouse", "SKU-NR-1">> :> [qty |-> 2, lastCalculatedAt |-> SeedBaselineAt])

DatasetStaff ==
  << [id |-> "staff-001", role |-> "SUPERVISOR", activeShift |-> TRUE,
      scopeAllZones |-> TRUE, zoneScopeZoneIds |-> {}],
     [id |-> "staff-002", role |-> "ASSOCIATE", activeShift |-> TRUE,
      scopeAllZones |-> FALSE,
      zoneScopeZoneIds |-> {"zone-shelf-a", "zone-shelf-b"}],
     [id |-> "staff-003", role |-> "ASSOCIATE", activeShift |-> TRUE,
      scopeAllZones |-> FALSE, zoneScopeZoneIds |-> {"zone-warehouse"}] >>

DemoRfidReads ==
  << [epc |-> 1, antennaId |-> "ant-warehouse-1", zoneId |-> "zone-warehouse",
      timestamp |-> InitialCursor + 5],
     [epc |-> 2, antennaId |-> "ant-warehouse-1", zoneId |-> "zone-warehouse",
      timestamp |-> InitialCursor + 6],
     [epc |-> 3, antennaId |-> "ant-kids-1", zoneId |-> "zone-shelf-b",
      timestamp |-> InitialCursor + 7] >>

DemoSales ==
  << [skuId |-> "SKU-NR-1", zoneId |-> "zone-shelf-a", eventType |-> "SALE",
      qty |-> 2, timestamp |-> InitialCursor + 10] >>

(* new InventoryEngine(dataset) *)
construct(dataset) ==
  [zones |-> dataset.zones,
   rules |-> dataset.replenishmentRules,
   nonRfidBaselines |-> dataset.inventorySeed,
   mapping |-> dataset.epcSkuMapping,
   snapshots |-> [k \in {<<x[1], x[2], "NON_RFID">> : x \in DOMAIN dataset.inventorySeed} |->
                    [qty |-> dataset.inventorySeed[<<k[1], k[2]>>].qty,
                     confidence |-> 0, version |-> 1]],
   rfidEvents |-> <<>>,
   salesEvents |-> [sale |-> <<>>, return |-> <<>>],
   tasks |-> <<>>,
   epcPresence |-> <<>>,
   customers |-> {},
   customerBasketItems |-> <<>>,
   pendingRFIDPicks |-> <<>>,
   replenishmentConfirmations |-> <<>>,
   receivingOrders |-> <<>>,
   staff |-> dataset.staff,
   taskAudit |-> <<>>,
   nowCursor |-> InitialCursor,
   generatedEpcSeq |-> Len(dataset.epcSkuMapping) + 1]

sampleDataset ==
  [zones |-> DatasetZones, replenishmentRules |-> DatasetRules,
   inventorySeed |-> DatasetSeed, epcSkuMapping |-> DatasetMapping,
   staff |-> DatasetStaff]

Constructed == construct(sampleDataset)

RECURSIVE loadReads(_, _)
loadReads(e, reads) ==
  IF reads = <<>> THEN e
  ELSE loadReads(ingestRFIDRead(e, Head(reads)).e, Tail(reads))

RECURSIVE loadSales(_, _)
loadSales(e, sales) ==
  IF sales = <<>> THEN e
  ELSE loadSales(ingestSalesEvent(e, Head(sales)).e, Tail(sales))

loadDemoStream(e, rfidReads, sales) ==
  calculateZones(loadSales(loadReads(e, rfidReads), sales),
                 MapSeq(e.zones, LAMBDA z : z.id))

Booted == loadDemoStream(Constructed, DemoRfidReads, DemoSales)

-----------------------------------------------------------------------------
(* The engine's fields as one record, and back *)

St ==
  [zones |-> zones, rules |-> rules, nonRfidBaselines |-> nonRfidBaselines,
   mapping |-> mapping, snapshots |-> snapshots, rfidEvents |-> rfidEvents,
   salesEvents |-> salesEvents, tasks |-> tasks, epcPresence |-> epcPresence,
   customers |-> customers, customerBasketItems |-> customerBasketItems,
   pendingRFIDPicks |-> pendingRFIDPicks,
   replenishmentConfirmations |-> replenishmentConfirmations,
   receivingOrders |-> receivingOrders, staff |-> staff,
   taskAudit |-> taskAudit, nowCursor |-> nowCursor,
   generatedEpcSeq |-> generatedEpcSeq]

(* the highest version each key has carried, the rows of `after` included *)
seenWith(seen, after) ==
  [k \in (DOMAIN seen) \cup (DOMAIN after) |->
     IF k \notin DOMAIN after THEN seen[k]
     ELSE IF k \notin DOMAIN seen THEN after[k].version
     ELSE Max(seen[k], after[k].version)]

Apply(e) ==
  /\ versionSeen' = seenWith(versionSeen, e.snapshots)
  /\ zones' = e.zones
  /\ rules' = e.rules
  /\ nonRfidBaselines' = e.nonRfidBaselines
  /\ mapping' = e.mapping
  /\ snapshots' = e.snapshots
  /\ rfidEvents' = e.rfidEvents
  /\ salesEvents' = e.salesEvents
  /\ tasks' = e.tasks
  /\ epcPresence' = e.epcPresence
  /\ customers' = e.customers
  /\ customerBasketItems' = e.customerBasketItems
  /\ pendingRFIDPicks' = e.pendingRFIDPicks
  /\ replenishmentConfirmations' = e.replenishmentConfirmations
  /\ receivingOrders' = e.receivingOrders
  /\ staff' = e.staff
  /\ taskAudit' = e.taskAudit
  /\ nowCursor' = e.nowCursor
  /\ generatedEpcSeq' = e.generatedEpcSeq

NoCommand ==
  [cmd |-> "boot", status |-> NONE, zoneId |-> NONE, skuId |-> NONE,
   qty |-> 0, id |-> 0, t |-> 0]

InitEngine(b) ==
  /\ zones = b.zones
  /\ rules = b.rules
  /\ nonRfidBaselines = b.nonRfidBaselines
  /\ mapping = b.mapping
  /\ snapshots = b.snapshots
  /\ rfidEvents = b.rfidEvents
  /\ salesEvents = b.salesEvents
  /\ tasks = b.tasks
  /\ epcPresence = b.epcPresence
  /\ customers = b.customers
  /\ customerBasketItems = b.customerBasketItems
  /\ pendingRFIDPicks = b.pendingRFIDPicks
  /\ replenishmentConfirmations = b.replenishmentConfirmations
  /\ receivingOrders = b.receivingOrders
  /\ staff = b.staff
  /\ taskAudit = b.taskAudit
  /\ nowCursor = b.nowCursor
  /\ generatedEpcSeq = b.generatedEpcSeq
  /\ ret = NoCommand
  /\ steps = 0
  /\ versionSeen = [k \in DOMAIN b.snapshots |-> b.snapshots[k].version]

(* the engine on its own: no gateway state around it *)
InitFrom(b) ==
  /\ InitEngine(b)
  /\ minMaxRuleTemplates = <<>>
  /\ managedEffectiveRuleIds = <<>>

Init == \E b \in {Booted} : InitFrom(b)

-----------------------------------------------------------------------------
(* Inputs of the commands *)

T1 == InitialCursor + 20
T2 == InitialCursor + rfidPresenceTtlSec + 20

ReadInputs ==
  { [epc |-> 1, antennaId |-> "ant-kids-1", zoneId |-> "zone-shelf-b",
     timestamp |-> T1],
    [epc |-> 1, antennaId |-> "ant-warehouse-1", zoneId |-> "zone-warehouse",
     timestamp |-> T1],
    [epc |-> 1, antennaId |-> "ant-warehouse-1", zoneId |-> "zone-warehouse",
     timestamp |-> T2],
    [epc |-> 99, antennaId |-> "ant-kids-1", zoneId |-> "zone-shelf-b",
     timestamp |-> T1],
    [epc |-> 1, antennaId |-> "ant-woman-1", zoneId |-> "zone-warehouse",
     timestamp |-> T1],
    [epc |-> 4, antennaId |-> "ant-kids-1", zoneId |-> "zone-shelf-b",
     timestamp |-> T1] }

SweepInputs ==
  { <<"zone-shelf-b", T2>>, <<"zone-warehouse", T1>>, <<"zone-unknown", T1>> }

ScanInputs ==
  { <<"zone-shelf-b", T1>>, <<"zone-warehouse", T2>> }

SaleInputs ==
  { [skuId |-> "SKU-NR-1", zoneId |-> "zone-shelf-a", eventType |-> "SALE",
     qty |-> 1, timestamp |-> T1],
    [skuId |-> "SKU-NR-1", zoneId |-> "zone-shelf-a", eventType |-> "RETURN",
     qty |-> 1, timestamp |-> T1],
    [skuId |-> "SKU-RFID-1", zoneId |-> "zone-shelf-b", eventType |-> "SALE",
     qty |-> 1, timestamp |-> T1],
    [skuId |-> "SKU-NR-1", zoneId |-> "zone-warehouse", eventType |-> "SALE",
     qty |-> 1, timestamp |-> T2] }

AddInputs ==
  { [customerId |-> "cust-1", zoneId |-> "zone-shelf-a", skuId |-> "SKU-NR-1",
     qty |-> 1, timestamp |-> T1],
    [customerId |-> "cust-2", zoneId |-> "zone-shelf-a", skuId |-> "SKU-NR-1",
     qty |-> 1, timestamp |-> T1],
    [customerId |-> "cust-1", zoneId |-> "zone-shelf-b", skuId |-> "SKU-RFID-1",
     qty |-> 1, timestamp |-> T1],
    [customerId |-> "cust-1", zoneId |-> "zone-shelf-a", skuId |-> "SKU-NR-1",
     qty |-> 2, timestamp |-> T1],
    [customerId |-> "cust-2", zoneId |-> "zone-warehouse", skuId |-> "SKU-NR-1",
     qty |-> 1, timestamp |-> T1],
    [customerId |-> "cust-2", zoneId |-> "zone-unknown", skuId |-> "SKU-NR-1",
     qty |-> 1, timestamp |-> T2],
    [customerId |-> "cust-1", zoneId |-> "zone-shelf-b", skuId |-> "SKU-RFID-4",
     qty |-> 1, timestamp |-> T1],
    [customerId |-> "cust-2", zoneId |-> "zone-shelf-a", skuId |-> "SKU-NR-JSY",
     qty |-> 1, timestamp |-> T1] }

CheckoutInputs == { <<"cust-1", T1>>, <<"cust-2", T1>> }

StaffInputs == { "staff-001", "staff-002", "staff-003" }

(* <<confirmedQty, sourceZoneId>>, NONE = no override *)
ConfirmInputs ==
  { <<0, NONE>>, <<1, NONE>>, <<2, NONE>>, <<1, "zone-shelf-b">>,
    <<1, "zone-warehouse">> }

OrderInputs ==
  { [sourceLocationId |-> "zone-warehouse", destinationZoneId |-> "zone-shelf-a",
     skuId |-> "SKU-NR-1", source |-> "NON_RFID", requestedQty |-> 1,
     createdAt |-> T1],
    [sourceLocationId |-> "external-esbo", destinationZoneId |-> "zone-warehouse",
     skuId |-> "SKU-NR-1", source |-> "NON_RFID", requestedQty |-> 1,
     createdAt |-> T1],
    [sourceLocationId |-> "external-esbo", destinationZoneId |-> "zone-warehouse",
     skuId |-> "SKU-NR-1", source |-> "NON_RFID", requestedQty |-> 0,
     createdAt |-> T1],
    [sourceLocationId |-> "zone-unknown", destinationZoneId |-> "zone-shelf-a",
     skuId |-> "SKU-NR-1", source |-> "NON_RFID", requestedQty |-> 1,
     createdAt |-> T1] }

Result(cmd, status, zoneId, skuId, qty, id, t) ==
  [cmd |-> cmd, status |-> status, zoneId |-> zoneId, skuId |-> skuId,
   qty |-> qty, id |-> id, t |-> t]

-----------------------------------------------------------------------------
(* Commands *)

IngestRFIDRead ==
  /\ steps < MaxSteps
  /\ \E event \in ReadInputs :
       \E r \in {ingestRFIDRead(St, event)} :
          /\ Apply(r.e)
          /\ ret' = Result("ingestRFIDRead", r.status, event.zoneId, NONE, 0,
                           event.epc, event.timestamp)
  /\ steps' = steps + 1
  /\ UNCHANGED gatewayVars

ForceZoneSweep ==
  /\ steps < MaxSteps
  /\ \E in \in SweepInputs :
       \E r \in {forceZoneSweep(St, in[1], in[2])} :
          /\ Apply(r.e)
          /\ ret' = Result("forceZoneSweep", r.status, in[1], NONE, 0, 0, in[2])
  /\ steps' = steps + 1
  /\ UNCHANGED gatewayVars

ScanZone ==
  /\ steps < MaxSteps
  /\ \E in \in ScanInputs :
       \E r \in {scanZone(St, in[1], in[2])} :
          /\ Apply(r.e)
          /\ ret' = Result("scanZone", r.status, in[1], NONE, 0, 0, in[2])
  /\ steps' = steps + 1
  /\ UNCHANGED gatewayVars

IngestSalesEvent ==
  /\ steps < MaxSteps
  /\ \E event \in SaleInputs :
       \E r \in {ingestSalesEvent(St, event)} :
          /\ Apply(r.e)
          /\ ret' = Result("ingestSalesEvent", r.status, event.zoneId,
                           event.skuId, event.qty, 0, event.timestamp)
  /\ steps' = steps + 1
  /\ UNCHANGED gatewayVars

AddCustomerItem ==
  /\ steps < MaxSteps
  /\ \E payload \in AddInputs :
       \E r \in {addCustomerItem(St, payload)} :
          /\ Apply(r.e)
          /\ ret' = Result("addCustomerItem", r.status, payload.zoneId,
                           payload.skuId, payload.qty, 0, payload.timestamp)
  /\ steps' = steps + 1
  /\ UNCHANGED gatewayVars

RemoveCustomerItem ==
  /\ steps < MaxSteps
  /\ \E id \in 1..(Len(customerBasketItems) + 1) :
       \E r \in {removeCustomerItem(St, [basketItemId |-> id, timestamp |-> T1])} :
          /\ Apply(r.e)
          /\ ret' = Result("removeCustomerItem", r.status, NONE, NONE,
                           r.restoredQty, id, T1)
  /\ steps' = steps + 1
  /\ UNCHANGED gatewayVars

CheckoutCustomer ==
  /\ steps < MaxSteps
  /\ \E in \in CheckoutInputs :
       \E r \in {checkoutCustomer(St, in[1], in[2])} :
          /\ Apply(r.e)
          /\ ret' = Result("checkoutCustomer", r.status, NONE, NONE, 0, 0, in[2])
  /\ steps' = steps + 1
  /\ UNCHANGED gatewayVars

AssignTask ==
  /\ steps < MaxSteps
  /\ \E taskId \in 1..(Len(tasks) + 1), staffId \in StaffInputs :
       \E r \in {assignTask(St, [taskId |-> taskId, staffId |-> staffId,
                                at |-> T1])} :
          /\ Apply(r.e)
          /\ ret' = Result("assignTask", r.status, NONE, NONE, 0, taskId, T1)
  /\ steps' = steps + 1
  /\ UNCHANGED gatewayVars

StartTask ==
  /\ steps < MaxSteps
  /\ \E taskId \in 1..(Len(tasks) + 1), staffId \in StaffInputs :
       \E r \in {startTask(St, [taskId |-> taskId, staffId |-> staffId,
                               at |-> T1])} :
          /\ Apply(r.e)
          /\ ret' = Result("startTask", r.status, NONE, NONE, 0, taskId, T1)
  /\ steps' = steps + 1
  /\ UNCHANGED gatewayVars

ConfirmTask ==
  /\ steps < MaxSteps
  /\ \E taskId \in 1..(Len(tasks) + 1), in \in ConfirmInputs :
       \E r \in {confirmTask(St, taskId, [confirmedQty |-> in[1],
                                         sourceZoneId |-> in[2],
                                         confirmedAt |-> T1])} :
          /\ Apply(r.e)
          /\ ret' = Result("confirmTask", r.result, in[2], NONE, in[1],
                           taskId, T1)
  /\ steps' = steps + 1
  /\ UNCHANGED gatewayVars

CreateReceivingOrder ==
  /\ steps < MaxSteps
  /\ \E payload \in OrderInputs :
       \E r \in {createReceivingOrder(St, payload)} :
          /\ Apply(r.e)
          /\ ret' = Result("createReceivingOrder", r.status,
                           payload.destinationZoneId, payload.skuId,
                           payload.requestedQty, 0, payload.createdAt)
  /\ steps' = steps + 1
  /\ UNCHANGED gatewayVars

ConfirmReceivingOrder ==
  /\ steps < MaxSteps
  /\ \E orderId \in 1..(Len(receivingOrders) + 1) :
       \E r \in {confirmReceivingOrder(St, orderId, [confirmedAt |-> T1])} :
          /\ Apply(r.e)
          /\ ret' = Result("confirmReceivingOrder", r.status, NONE, NONE, 0,
                           orderId, T1)
  /\ steps' = steps + 1
  /\ UNCHANGED gatewayVars

Next ==
  \/ IngestRFIDRead
  \/ ForceZoneSweep
  \/ ScanZone
  \/ IngestSalesEvent
  \/ AddCustomerItem
  \/ RemoveCustomerItem
  \/ CheckoutCustomer
  \/ AssignTask
  \/ StartTask
  \/ ConfirmTask
  \/ CreateReceivingOrder
  \/ ConfirmReceivingOrder

Spec == Init /\ [][Next]_vars

-----------------------------------------------------------------------------
(* Scenario S1: the sample rule and seed of zone-shelf-a / SKU-NR-1 with
   their real quantities (rule min 2, max 8; 7 units counted at 09:55; 180 in
   the warehouse), and the three demo sales 2, 1, 1 ingested at boot.  The
   demo timestamps are compressed to the seconds before the boot cursor. *)

S1Rules ==
  << [zoneId |-> "zone-shelf-a", skuId |-> "SKU-NR-1", source |-> "NON_RFID",
      minQty |-> 2, maxQty |-> 8, isActive |-> TRUE, priority |-> 1, updatedAt |-> 0],
     [zoneId |-> "zone-shelf-b", skuId |-> "SKU-RFID-1", source |-> "RFID",
      minQty |-> 1, maxQty |-> 2, isActive |-> TRUE, priority |-> 1, updatedAt |-> 0],
     [zoneId |-> "zone-warehouse", skuId |-> "SKU-RFID-1", source |-> "RFID",
      minQty |-> 1, maxQty |-> 3, isActive |-> TRUE, priority |-> 1, updatedAt |-> 0] >>

S1Seed ==
  (<<"zone-shelf-a", "SKU-NR-1">> :> [qty |-> 7, lastCalculatedAt |-> SeedBaselineAt])
  @@ (<<"zone-warehouse", "SKU-NR-1">> :> [qty |-> 180, lastCalculatedAt |-> SeedBaselineAt])

S1Sales ==
  << [skuId |-> "SKU-NR-1", zoneId |-> "zone-shelf-a", eventType |-> "SALE",
      qty |-> 2, timestamp |-> InitialCursor + 8],
     [skuId |-> "SKU-NR-1", zoneId |-> "zone-shelf-a", eventType |-> "SALE",
      qty |-> 1, timestamp |-> InitialCursor + 9],
     [skuId |-> "SKU-NR-1", zoneId |-> "zone-shelf-a", eventType |-> "SALE",
      qty |-> 1, timestamp |-> InitialCursor + 10] >>

S1Dataset ==
  [zones |-> DatasetZones, replenishmentRules |-> S1Rules,
   inventorySeed |-> S1Seed, epcSkuMapping |-> DatasetMapping,
   staff |-> DatasetStaff]

S1Booted == loadDemoStream(construct(S1Dataset), DemoRfidReads, S1Sales)

InitS1 == \E b \in {S1Booted} : InitFrom(b)

SpecS1 == InitS1 /\ [][Next]_vars

-----------------------------------------------------------------------------
(* Scenario S5: the store with the two back-of-house locations of the
   personalisation flow, one unit of the player jersey SKU-RFID-4 on
   zone-shelf-b (no rule, no source) and one unit of SKU-NR-JSY on
   zone-shelf-a under a min/max rule. *)

S5Zones ==
  DatasetZones \o
  << [id |-> CASHIER_STORAGE_ZONE_ID, isSalesLocation |-> FALSE,
      replenishmentSources |-> <<>>],
     [id |-> PRINTING_WALL_ZONE_ID, isSalesLocation |-> FALSE,
      replenishmentSources |-> <<>>] >>

S5Rules ==
  DatasetRules \o
  << [zoneId |-> "zone-shelf-a", skuId |-> "SKU-NR-JSY", source |-> "NON_RFID",
      minQty |-> 0, maxQty |-> 1, isActive |-> TRUE, priority |-> 1, updatedAt |-> 0] >>

S5Mapping ==
  DatasetMapping \o << [epc |-> 4, skuId |-> "SKU-RFID-4", activeFrom |-> 0] >>

S5Seed ==
  DatasetSeed
  @@ (<<"zone-shelf-a", "SKU-NR-JSY">> :> [qty |-> 1, lastCalculatedAt |-> SeedBaselineAt])

S5Reads ==
  DemoRfidReads \o
  << [epc |-> 4, antennaId |-> "ant-kids-1", zoneId |-> "zone-shelf-b",
      timestamp |-> InitialCursor + 8] >>

S5Dataset ==
  [zones |-> S5Zones, replenishmentRules |-> S5Rules,
   inventorySeed |-> S5Seed, epcSkuMapping |-> S5Mapping,
   staff |-> DatasetStaff]

S5Booted == loadDemoStream(construct(S5Dataset), S5Reads, DemoSales)

InitS5 == \E b \in {S5Booted} : InitFrom(b)

SpecS5 == InitS5 /\ [][Next]_vars

-----------------------------------------------------------------------------
(* Properties of the engine *)

(* statuses of a command that was carried out *)
SuccessStatuses ==
  {"accepted", "accepted_rfid_immediate", "removed", "checked_out", "empty_cart", "assigned", "started",
   "confirmed", "confirmed_partial", "created"}

(* statuses that report a validation failure *)
ValidationStatuses ==
  {"invalid_antenna_or_zone", "zone_not_found", "zone_not_orderable",
   "invalid_qty", "destination_not_found", "sku_not_found", "source_mismatch",
   "source_not_found", "source_equals_destination", "invalid_min_max",
   "zone_required", "sku_required", "task_not_found", "staff_not_found",
   "order_not_found"}

(* presence records bound to (zoneId, skuId) and seen within the TTL *)
FreshPresence(zoneId, skuId) ==
  {i \in 1..Len(epcPresence) :
     /\ epcPresence[i].zoneId = zoneId
     /\ epcPresence[i].skuId = skuId
     /\ epcPresence[i].lastSeenAt >= nowCursor - rfidPresenceTtlSec}

(* baseline + signed ledger entries of (zoneId, skuId), floored at zero *)
LedgerValue(zoneId, skuId) ==
  LET k == <<zoneId, skuId>>
      entry(log) == IF k \in DOMAIN log THEN log[k] ELSE 0
      baselineQty == IF k \in DOMAIN nonRfidBaselines
                     THEN nonRfidBaselines[k].qty ELSE 0
      total == baselineQty - entry(salesEvents.sale) + entry(salesEvents.return)
               + entry(replenishmentConfirmations)
  IN IF total > 0 THEN total ELSE 0

(* C1: the cursor never decreases, and a command carried out with timestamp t
   leaves the cursor at or above max(cursor before, t), out-of-order t
   included *)
C1_CursorNeverDecreases ==
  [][/\ nowCursor' >= nowCursor
     /\ (ret'.status \in SuccessStatuses => nowCursor' >= ret'.t)]_vars

(* C2: in every state, every RFID snapshot that does not carry the
   immediate-deduction confidence 0.55 has as qty the number of presence
   records of its (location, SKU) seen within the last 300 s of the cursor *)
C2_TtlPurity ==
  \A k \in DOMAIN snapshots :
     (k[3] = "RFID" /\ snapshots[k].confidence # 55)
        => snapshots[k].qty = Cardinality(FreshPresence(k[1], k[2]))

(* C3: in every state, every NON_RFID snapshot has as qty
   max(0, baseline - sales + returns + confirmed replenishment) of its
   (location, SKU) *)
C3_LedgerConservation ==
  \A k \in DOMAIN snapshots :
     k[3] = "NON_RFID" => snapshots[k].qty = LedgerValue(k[1], k[2])

(* indices of the open tasks of the rule (zoneId, skuId, source) *)
OpenTasksOf(rule) ==
  {i \in 1..Len(tasks) :
     /\ tasks[i].ruleId = <<"rule", rule.zoneId, rule.skuId, rule.source>>
     /\ tasks[i].status \in {"CREATED", "ASSIGNED", "IN_PROGRESS"}}

RECURSIVE DeficitSum(_)
DeficitSum(ids) ==
  IF ids = {} THEN 0
  ELSE LET i == CHOOSE x \in ids : TRUE
       IN tasks[i].deficitQty + DeficitSum(ids \ {i})

SnapshotQty(zoneId, skuId, source) ==
  IF <<zoneId, skuId, source>> \in DOMAIN snapshots
  THEN snapshots[<<zoneId, skuId, source>>].qty
  ELSE 0

ZoneOf(zoneId) == zones[CHOOSE i \in 1..Len(zones) : zones[i].id = zoneId]

SalesRules ==
  {i \in 1..Len(rules) :
     /\ \E z \in 1..Len(zones) : zones[z].id = rules[i].zoneId
     /\ ZoneOf(rules[i].zoneId).isSalesLocation}

(* the last command ended with the min/max evaluation of zoneId *)
EvaluatedLast(zoneId) ==
  /\ ret.zoneId = zoneId
  /\ \/ ret.cmd \in {"ingestRFIDRead", "forceZoneSweep", "scanZone"}
        /\ ret.status = "accepted"
     \/ ret.cmd = "ingestSalesEvent" /\ ret.status = "accepted"
     \/ ret.cmd = "addCustomerItem" /\ ret.status = "accepted"

(* C4: after the min/max evaluation of a sales location, every active rule of
   it with current qty <= min has open tasks (CREATED, ASSIGNED, IN_PROGRESS)
   whose deficits sum to at most max - current *)
C4_DeficitBound ==
  \A i \in SalesRules :
     LET rule == rules[i]
         current == SnapshotQty(rule.zoneId, rule.skuId, rule.source)
     IN (EvaluatedLast(rule.zoneId) /\ rule.isActive /\ current <= rule.minQty)
           => DeficitSum(OpenTasksOf(rule)) <= rule.maxQty - current

(* C5: in every state, a rule of a sales location whose destination has at
   most one configured source, or whose open tasks all share one
   sourceZoneId, has at most one task in status CREATED or ASSIGNED *)
C5_SingleOpenTask ==
  \A i \in SalesRules :
     LET rule == rules[i]
         open == OpenTasksOf(rule)
         waiting == {t \in open : tasks[t].status \in {"CREATED", "ASSIGNED"}}
     IN (\/ Len(ZoneOf(rule.zoneId).replenishmentSources) <= 1
         \/ \A a, b \in open : tasks[a].sourceZoneId = tasks[b].sourceZoneId)
           => Cardinality(waiting) <= 1

(* C6: a confirmTask on an IN_PROGRESS task that moves no unit returns null
   and leaves the whole engine state as it was: task status and
   sourceZoneId, every snapshot row and version, the cursor *)
C6_NullConfirmChangesNothing ==
  [][(/\ ret'.cmd = "confirmTask"
      /\ ret'.status = "null"
      /\ ret'.id \in 1..Len(tasks)
      /\ tasks[ret'.id].status = "IN_PROGRESS")
        => UNCHANGED engineVars]_vars

(* units of skuId that left zoneId in the step: snapshot qty for NON_RFID,
   bound presence records for RFID *)
UnitsRemoved(zoneId, skuId) ==
  IF skuSourceById[skuId] = "RFID"
  THEN Cardinality({i \in 1..Len(epcPresence) :
                      epcPresence[i].zoneId = zoneId
                      /\ epcPresence[i].skuId = skuId})
       - Cardinality({i \in 1..Len(epcPresence') :
                        epcPresence'[i].zoneId = zoneId
                        /\ epcPresence'[i].skuId = skuId})
  ELSE SnapshotQty(zoneId, skuId, "NON_RFID")
       - (IF <<zoneId, skuId, "NON_RFID">> \in DOMAIN snapshots'
          THEN snapshots'[<<zoneId, skuId, "NON_RFID">>].qty ELSE 0)

(* C7: a task becomes CONFIRMED only with confirmedQty >= 1 units, and
   these are units that left one source location in that confirmation *)
C7_ConfirmedMovesUnits ==
  [][\A i \in 1..Len(tasks) :
       (tasks[i].status # "CONFIRMED" /\ tasks'[i].status = "CONFIRMED")
          => /\ tasks'[i].confirmedQty >= 1
             /\ \E z \in 1..Len(zones) :
                   /\ zones[z].id # tasks[i].zoneId
                   /\ UnitsRemoved(zones[z].id, tasks[i].skuId)
                        = tasks'[i].confirmedQty]_vars

TaskTransitions ==
  {<<"CREATED", "ASSIGNED">>, <<"CREATED", "IN_PROGRESS">>,
   <<"ASSIGNED", "IN_PROGRESS">>, <<"IN_PROGRESS", "CONFIRMED">>,
   <<"CREATED", "REJECTED">>, <<"ASSIGNED", "REJECTED">>,
   <<"IN_PROGRESS", "REJECTED">>}

(* C8: a task changes status only along CREATED -> ASSIGNED,
   CREATED/ASSIGNED -> IN_PROGRESS, IN_PROGRESS -> CONFIRMED and
   open -> REJECTED; CONFIRMED and REJECTED are terminal *)
C8_TaskStateMachine ==
  [][\A i \in 1..Len(tasks) :
       \/ tasks'[i].status = tasks[i].status
       \/ <<tasks[i].status, tasks'[i].status>> \in TaskTransitions]_vars

(* units of (zoneId, skuId) held by the IN_CART items of a basket list *)
RECURSIVE ReservedIn(_, _, _)
ReservedIn(items, zoneId, skuId) ==
  IF items = <<>> THEN 0
  ELSE LET item == Head(items)
           held == IF skuSourceById[item.skuId] = "RFID"
                   THEN (IF item.qty - item.pickedConfirmedQty > 0
                         THEN item.qty - item.pickedConfirmedQty ELSE 0)
                   ELSE item.qty
       IN (IF item.status = "IN_CART" /\ item.zoneId = zoneId
              /\ item.skuId = skuId
           THEN held ELSE 0)
          + ReservedIn(Tail(items), zoneId, skuId)

(* C9: addCustomerItem is accepted only with qty <= current - reserved,
   current being the snapshot qty after the recompute and reserved the units
   held by IN_CART items before the call; after it current - reserved is
   lower by exactly qty *)
C9_ReservationSafety ==
  [][(ret'.cmd = "addCustomerItem" /\ ret'.status = "accepted")
        => LET k == <<ret'.zoneId, ret'.skuId, skuSourceById[ret'.skuId]>>
               current == IF k \in DOMAIN snapshots' THEN snapshots'[k].qty
                          ELSE 0
               before == ReservedIn(customerBasketItems, ret'.zoneId,
                                    ret'.skuId)
               after == ReservedIn(customerBasketItems', ret'.zoneId,
                                   ret'.skuId)
           IN /\ ret'.qty <= current - before
              /\ current - after = (current - before) - ret'.qty]_vars

(* an accepted add that reserved the last free unit of its (location, SKU) *)
C9_LastUnitReserved ==
  /\ ret.cmd = "addCustomerItem"
  /\ ret.status = "accepted"
  /\ ReservedIn(customerBasketItems, ret.zoneId, ret.skuId)
       = SnapshotQty(ret.zoneId, ret.skuId, skuSourceById[ret.skuId])
  /\ Len(customerBasketItems) >= 1

(* C10: a command that returns a validation status leaves the whole engine
   state as it was, cursor and customer registry included *)
C10_ValidationMutatesNothing ==
  [][ret'.status \in ValidationStatuses => UNCHANGED engineVars]_vars

(* statuses that report a business precondition that did not hold *)
BusinessStatuses ==
  {"insufficient_inventory", "duplicate_ignored", "unknown_epc",
   "task_not_open", "staff_not_eligible_for_zone", "no_inventory_moved"}

(* C11: a command that returns a business-precondition status leaves the
   whole engine state as it was: cursor, snapshots and their versions, tasks,
   orders and customers *)
C11_BusinessFailureMutatesNothing ==
  [][ret'.status \in BusinessStatuses => UNCHANGED engineVars]_vars

(* C12: a sale that leaves a NON_RFID rule of a sales location, with no open
   task, at exactly its minimum (or above it) creates no replenishment task;
   tasks appear only once the quantity is strictly below the minimum *)
C12_NoTaskAtMin ==
  [][\A i \in SalesRules :
       LET rule == rules[i]
           k == <<rule.zoneId, rule.skuId, rule.source>>
       IN (/\ rule.source = "NON_RFID" /\ rule.isActive
           /\ OpenTasksOf(rule) = {}
           /\ ret'.cmd = "ingestSalesEvent" /\ ret'.status = "accepted"
           /\ ret'.zoneId = rule.zoneId /\ ret'.skuId = rule.skuId
           /\ k \in DOMAIN snapshots'
           /\ snapshots'[k].qty >= rule.minQty)
             => \A t \in 1..Len(tasks') :
                   tasks'[t].ruleId = <<"rule", rule.zoneId, rule.skuId, rule.source>>
                      => ~taskIsOpen(tasks'[t].status)]_vars

(* scenario S1 played to its end: after the three demo sales, two more sales
   of one unit of SKU-NR-1 at zone-shelf-a and nothing else *)
S1Played ==
  /\ steps = 2
  /\ <<"zone-shelf-a", "SKU-NR-1">> \in DOMAIN salesEvents.sale
  /\ salesEvents.sale[<<"zone-shelf-a", "SKU-NR-1">>] = 6

(* C13: at the end of S1 (qty 1) exactly one open task exists for the rule of
   zone-shelf-a / SKU-NR-1, with deficitQty 7 = max - current, targetQty 8 and
   the warehouse as its source *)
C13_S1OneTaskSizedToMax ==
  S1Played =>
    LET rule == [zoneId |-> "zone-shelf-a", skuId |-> "SKU-NR-1", source |-> "NON_RFID"]
        open == OpenTasksOf(rule)
    IN /\ SnapshotQty("zone-shelf-a", "SKU-NR-1", "NON_RFID") = 1
       /\ Cardinality(open) = 1
       /\ \A t \in open :
             /\ tasks[t].deficitQty = 7
             /\ tasks[t].targetQty = 8
             /\ tasks[t].sourceZoneId = "zone-warehouse"

(* C14: a confirmation that closes task i moved m = confirmedQty >= 1 units,
   m = min(requested qty, snapshot qty of the source recorded on the task);
   the destination snapshot rose by exactly m, the snapshot of that source
   fell by exactly m, and the close reason is confirmed_partial when
   m < deficitQty and confirmed otherwise *)
C14_ConfirmMovesOneForOne ==
  [][\A i \in 1..Len(tasks) :
       (/\ ret'.cmd = "confirmTask" /\ ret'.id = i
        /\ tasks[i].status = "IN_PROGRESS" /\ tasks'[i].status = "CONFIRMED")
          => LET m == tasks'[i].confirmedQty
                 source == sourceOfSku(tasks[i].skuId)
                 dst == <<tasks[i].zoneId, tasks[i].skuId, source>>
                 src == <<tasks'[i].sourceZoneId, tasks[i].skuId, source>>
                 before(k) == IF k \in DOMAIN snapshots THEN snapshots[k].qty ELSE 0
                 after(k) == IF k \in DOMAIN snapshots' THEN snapshots'[k].qty ELSE 0
             IN /\ m >= 1
                /\ m = Min(ret'.qty, before(src))
                /\ after(dst) = before(dst) + m
                /\ after(src) = before(src) - m
                /\ tasks'[i].closeReason =
                     (IF m < tasks[i].deficitQty THEN "confirmed_partial"
                      ELSE "confirmed")]_vars

(* projected supply of (zoneId, skuId) after the step, the tasks in `excluded`
   left out: on hand + open inbound deficits + unreserved stock of the
   configured sources of the location *)
ProjectedSupplyAfter(zoneId, skuId, source, excluded) ==
  LET qtyAfter(z) == IF <<z, skuId, source>> \in DOMAIN snapshots'
                     THEN snapshots'[<<z, skuId, source>>].qty ELSE 0
      open == SelectSeq(IndexSeq(tasks'),
                LAMBDA t : /\ t \notin excluded
                           /\ taskIsOpen(tasks'[t].status)
                           /\ tasks'[t].skuId = skuId)
      deficits(ids) == SumSeq([k \in 1..Len(ids) |->
                                 Max(0, tasks'[ids[k]].deficitQty)])
      inbound == SelectSeq(open, LAMBDA t : tasks'[t].zoneId = zoneId)
      reservedFrom(z) == SelectSeq(open, LAMBDA t : tasks'[t].sourceZoneId = z)
      sources == ZoneOf(zoneId).replenishmentSources
  IN qtyAfter(zoneId) + deficits(inbound)
     + SumSeq([k \in 1..Len(sources) |->
                 Max(0, qtyAfter(sources[k].sourceZoneId)
                        - deficits(reservedFrom(sources[k].sourceZoneId)))])

(* C15: a checkout that sells one IN_CART item of a personalisable SKU takes
   the item's units off the origin location (after the recompute its on-hand
   qty is lower by the item qty, less the units RFID reads had already picked
   off the shelf), puts the item qty into zone-cashier-storage, and
   creates exactly one personalisation task for the SKU, whose destination is
   zone-printing-wall when the projected supply of the origin is <= 0 and the
   origin otherwise *)
C15_PersonalisationRouting ==
  [][\A i \in 1..Len(customerBasketItems) :
       LET item == customerBasketItems[i]
           sold == {j \in 1..Len(customerBasketItems) :
                      /\ customerBasketItems[j].status = "IN_CART"
                      /\ customerBasketItems'[j].status = "SOLD"}
           source == sourceOfSku(item.skuId)
           before(z) == IF <<z, item.skuId, source>> \in DOMAIN snapshots
                        THEN snapshots[<<z, item.skuId, source>>].qty ELSE 0
           after(z) == IF <<z, item.skuId, source>> \in DOMAIN snapshots'
                       THEN snapshots'[<<z, item.skuId, source>>].qty ELSE 0
           onShelf == IF source = "RFID"
                      THEN Max(0, item.qty - item.pickedConfirmedQty)
                      ELSE item.qty
           newTasks == {t \in (Len(tasks) + 1)..Len(tasks') :
                          tasks'[t].ruleId[1] = "rule-printing-sale"}
           projected == ProjectedSupplyAfter(item.zoneId, item.skuId, source,
                                             newTasks)
       IN (/\ ret'.cmd = "checkoutCustomer" /\ ret'.status = "checked_out"
           /\ sold = {i}
           /\ item.skuId \in personalizableSkuIds)
             => /\ after(item.zoneId) = before(item.zoneId) - onShelf
                /\ after(CASHIER_STORAGE_ZONE_ID)
                     = before(CASHIER_STORAGE_ZONE_ID) + item.qty
                /\ Cardinality(newTasks) = 1
                /\ \A t \in newTasks :
                      /\ tasks'[t].skuId = item.skuId
                      /\ tasks'[t].zoneId =
                           (IF projected <= 0 THEN PRINTING_WALL_ZONE_ID
                            ELSE item.zoneId)]_vars

-----------------------------------------------------------------------------
(* C20: for a known EPC and a valid antenna, ingestRFIDRead(epc, antenna, t)
   answers duplicate_ignored exactly when the most recent read of the same
   (epc, antenna) that was accepted through ingestRFIDRead has a timestamp
   >= t - dedupWindowSec, and accepted otherwise; the records appended by a
   transfer do not count as previous reads. *)
PreviousReadAt(epc, antennaId) ==
  IF <<epc, antennaId>> \in DOMAIN rfidEvents
  THEN rfidEvents[<<epc, antennaId>>].readTimestamp ELSE -1

C20_DedupDecisionRule ==
  [][(ret'.cmd = "ingestRFIDRead"
      /\ ret'.status \in {"accepted", "duplicate_ignored"})
       => LET prev == PreviousReadAt(ret'.id, primaryAntenna(ret'.zoneId))
          IN (ret'.status = "duplicate_ignored")
               <=> (prev >= 0 /\ prev >= ret'.t - dedupWindowSec)]_vars

-----------------------------------------------------------------------------
(* The gateway (api/mockApi.ts): rule templates projected onto the engine.
   A gateway state is a record g of the engine and the two module variables;
   managedEffectiveRuleIds is a JavaScript Set, kept here in insertion order.
   A template's id is its position in minMaxRuleTemplates (templates are
   never removed from the list).  Every template selects by SKU; the
   ATTRIBUTES selector and inboundSourceLocationId are left out. *)

Gw ==
  [e |-> St, minMaxRuleTemplates |-> minMaxRuleTemplates,
   managedEffectiveRuleIds |-> managedEffectiveRuleIds]

(* minMaxRuleTemplates = engine.getRules().map(...) *)
bootstrapTemplates(e) ==
  MapSeq(SelectSeq(e.rules, LAMBDA r : r.isActive),
         LAMBDA rule : [scope |-> "LOCATION", zoneId |-> rule.zoneId,
                        selectorMode |-> "SKU", skuId |-> rule.skuId,
                        source |-> rule.source,
                        minQty |-> rule.minQty, maxQty |-> rule.maxQty,
                        priority |-> rule.priority, isActive |-> rule.isActive,
                        updatedAt |-> rule.updatedAt])

resolveTemplateSkuIds(template) ==
  IF template.skuId = NONE
     \/ template.skuId \notin {k \in DOMAIN skuSourceById :
                                 skuSourceById[k] = template.source}
  THEN <<>>
  ELSE <<template.skuId>>

resolveTemplateZoneIds(e, template) ==
  IF template.scope = "LOCATION"
  THEN IF template.zoneId = NONE THEN <<>>
       ELSE IF zoneExists(e, template.zoneId) THEN <<template.zoneId>>
       ELSE <<>>
  ELSE MapSeq(e.zones, LAMBDA zone : zone.id)

(* shouldReplaceWinner without the scope weights: priority, then updatedAt *)
shouldReplaceWinnerIgnoringScope(nextTemplate, currentTemplate) ==
  IF nextTemplate.priority # currentTemplate.priority
  THEN nextTemplate.priority > currentTemplate.priority
  ELSE nextTemplate.updatedAt >= currentTemplate.updatedAt

shouldReplaceWinner(nextTemplate, currentTemplate) ==
  LET nextScopeWeight == IF nextTemplate.scope = "LOCATION" THEN 2 ELSE 1
      currentScopeWeight == IF currentTemplate.scope = "LOCATION" THEN 2 ELSE 1
  IN IF nextScopeWeight # currentScopeWeight
     THEN nextScopeWeight > currentScopeWeight
     ELSE IF nextTemplate.priority # currentTemplate.priority
     THEN nextTemplate.priority > currentTemplate.priority
     ELSE nextTemplate.updatedAt >= currentTemplate.updatedAt

(* the keys a template produces, zones outside, SKUs inside *)
RECURSIVE templateKeys(_, _, _)
templateKeys(zoneIds, skuIds, source) ==
  IF zoneIds = <<>> THEN <<>>
  ELSE MapSeq(skuIds, LAMBDA skuId : <<Head(zoneIds), skuId, source>>)
       \o templateKeys(Tail(zoneIds), skuIds, source)

(* winnerByKey as the sequence of its entries in insertion order; an entry
   is [key, template], template being a position in the template list *)
setWinner(templates, winnerByKey, key, t) ==
  LET at == SelectSeq(IndexSeq(winnerByKey), LAMBDA k : winnerByKey[k].key = key)
  IN IF Len(at) = 0 THEN Append(winnerByKey, [key |-> key, template |-> t])
     ELSE IF shouldReplaceWinner(templates[t], templates[winnerByKey[at[1]].template])
     THEN [winnerByKey EXCEPT ![at[1]].template = t]
     ELSE winnerByKey

RECURSIVE electKeys(_, _, _, _)
electKeys(templates, winnerByKey, keys, t) ==
  IF keys = <<>> THEN winnerByKey
  ELSE electKeys(templates, setWinner(templates, winnerByKey, Head(keys), t),
                 Tail(keys), t)

RECURSIVE electWinners(_, _, _, _)
electWinners(e, templates, t, winnerByKey) ==
  IF t > Len(templates) THEN winnerByKey
  ELSE IF ~templates[t].isActive
  THEN electWinners(e, templates, t + 1, winnerByKey)
  ELSE electWinners(e, templates, t + 1,
         electKeys(templates, winnerByKey,
                   templateKeys(resolveTemplateZoneIds(e, templates[t]),
                                resolveTemplateSkuIds(templates[t]),
                                templates[t].source),
                   t))

(* the loop of engine.upsertRule over winnerByKey; returns the engine and
   desiredRuleIds *)
RECURSIVE upsertWinners(_, _, _, _)
RECURSIVE addDesired(_, _, _, _)
upsertWinners(e, templates, winnerByKey, desiredRuleIds) ==
  IF winnerByKey = <<>> THEN [e |-> e, desiredRuleIds |-> desiredRuleIds]
  ELSE LET key == Head(winnerByKey).key
           template == templates[Head(winnerByKey).template]
       IN addDesired(upsertRule(e, [zoneId |-> key[1], skuId |-> key[2],
                                    source |-> key[3],
                                    minQty |-> template.minQty,
                                    maxQty |-> template.maxQty,
                                    priority |-> template.priority]),
                     templates, Tail(winnerByKey), desiredRuleIds)

(* desiredRuleIds.add(rule.id), then the rest of the loop *)
addDesired(rule, templates, winnerByKey, desiredRuleIds) ==
  upsertWinners(rule.e, templates, winnerByKey,
                IF rule.id \in SeqToSet(desiredRuleIds) THEN desiredRuleIds
                ELSE Append(desiredRuleIds, rule.id))

(* the loop of engine.deleteRule over the managed ids no longer desired *)
RECURSIVE deleteUndesired(_, _, _)
deleteUndesired(e, managed, desiredRuleIds) ==
  IF managed = <<>> THEN e
  ELSE IF Head(managed) \in SeqToSet(desiredRuleIds)
  THEN deleteUndesired(e, Tail(managed), desiredRuleIds)
  ELSE deleteUndesired(deleteRule(e, Head(managed)).e, Tail(managed),
                       desiredRuleIds)

(* the second loop and managedEffectiveRuleIds = desiredRuleIds *)
dropUndesired(g, up) ==
  [e |-> deleteUndesired(up.e, g.managedEffectiveRuleIds, up.desiredRuleIds),
   minMaxRuleTemplates |-> g.minMaxRuleTemplates,
   managedEffectiveRuleIds |-> up.desiredRuleIds]

syncEffectiveRulesFromTemplates(g) ==
  dropUndesired(g, upsertWinners(g.e, g.minMaxRuleTemplates,
                                 electWinners(g.e, g.minMaxRuleTemplates, 1, <<>>),
                                 <<>>))

upsertMinMaxRuleTemplateInternal(g, payload) ==
  LET existingIndex == IF "id" \in DOMAIN payload
                          /\ payload.id \in 1..Len(g.minMaxRuleTemplates)
                       THEN payload.id ELSE 0
      nextTemplate ==
        [scope |-> payload.scope,
         zoneId |-> IF payload.scope = "LOCATION" THEN payload.zoneId ELSE NONE,
         selectorMode |-> payload.selectorMode,
         skuId |-> IF payload.selectorMode = "SKU" THEN payload.skuId ELSE NONE,
         source |-> payload.source,
         minQty |-> payload.minQty, maxQty |-> payload.maxQty,
         priority |-> IF "priority" \in DOMAIN payload THEN payload.priority ELSE 2,
         isActive |-> TRUE, updatedAt |-> g.e.nowCursor]
  IN IF payload.maxQty < payload.minQty
     THEN [g |-> g, status |-> "invalid_min_max", id |-> 0]
     ELSE IF payload.scope = "LOCATION" /\ payload.zoneId = NONE
     THEN [g |-> g, status |-> "zone_required", id |-> 0]
     ELSE IF payload.scope = "LOCATION" /\ ~zoneExists(g.e, payload.zoneId)
     THEN [g |-> g, status |-> "zone_not_found", id |-> 0]
     ELSE IF payload.selectorMode = "SKU" /\ payload.skuId = NONE
     THEN [g |-> g, status |-> "sku_required", id |-> 0]
     ELSE IF existingIndex >= 1
     THEN [g |-> syncEffectiveRulesFromTemplates(
                   [g EXCEPT !.minMaxRuleTemplates[existingIndex] = nextTemplate]),
           status |-> "updated", id |-> existingIndex]
     ELSE [g |-> syncEffectiveRulesFromTemplates(
                   [g EXCEPT !.minMaxRuleTemplates = Append(@, nextTemplate)]),
           status |-> "created", id |-> Len(g.minMaxRuleTemplates) + 1]

deleteMinMaxRuleTemplateInternal(g, templateId) ==
  IF templateId \notin 1..Len(g.minMaxRuleTemplates)
  THEN [g |-> g, status |-> "not_found"]
  ELSE [g |-> syncEffectiveRulesFromTemplates(
                [g EXCEPT !.minMaxRuleTemplates[templateId].isActive = FALSE,
                          !.minMaxRuleTemplates[templateId].updatedAt =
                             g.e.nowCursor]),
        status |-> "deleted"]

(* the first active LOCATION/SKU template of a key, as sought by the legacy
   commands *)
locationTemplates(g, zoneId, skuId, source) ==
  SelectSeq(IndexSeq(g.minMaxRuleTemplates),
            LAMBDA t : LET entry == g.minMaxRuleTemplates[t]
                       IN /\ entry.isActive
                          /\ entry.scope = "LOCATION"
                          /\ entry.selectorMode = "SKU"
                          /\ entry.zoneId = zoneId
                          /\ entry.skuId = skuId
                          /\ entry.source = source)

(* api.upsertMinMaxRule *)
upsertMinMaxRule(g, payload) ==
  LET existingTemplate ==
        locationTemplates(g, payload.zoneId, payload.skuId, payload.source)
      base == [scope |-> "LOCATION", zoneId |-> payload.zoneId,
               selectorMode |-> "SKU", skuId |-> payload.skuId,
               source |-> payload.source,
               minQty |-> payload.minQty, maxQty |-> payload.maxQty]
      proxied == IF "priority" \in DOMAIN payload
                 THEN [priority |-> payload.priority] @@ base ELSE base
  IN upsertMinMaxRuleTemplateInternal(g,
       IF Len(existingTemplate) > 0
       THEN [id |-> existingTemplate[1]] @@ proxied
       ELSE proxied)

(* the gateway state after an engine call, with the engine's status *)
engineResult(g, result) ==
  [g |-> [g EXCEPT !.e = result.e], status |-> result.status]

(* result = { status: deleted.status, zoneId: resolvedRule.zoneId } *)
deletedThroughTemplate(deleted, zoneId) ==
  [g |-> deleted.g, status |-> deleted.status]

(* api.deleteRule *)
apiDeleteRule(g, ruleId) ==
  LET resolved == SelectSeq(g.e.rules,
                    LAMBDA r : r.isActive
                               /\ ruleIdOf(r.zoneId, r.skuId, r.source) = ruleId)
      resolvedRule == resolved[1]
      matchingTemplate ==
        locationTemplates(g, resolvedRule.zoneId, resolvedRule.skuId,
                          resolvedRule.source)
  IN IF Len(resolved) > 0 /\ Len(matchingTemplate) > 0
     THEN deletedThroughTemplate(
            deleteMinMaxRuleTemplateInternal(g, matchingTemplate[1]),
            resolvedRule.zoneId)
     ELSE engineResult(g, deleteRule(g.e, ruleId))

(* api.updateLocation and api.createLocation: the engine call; the saved
   locations setup and the flow log are not read back *)
apiUpdateLocation(g, payload) == engineResult(g, updateLocation(g.e, payload))

apiCreateLocation(g, payload) == engineResult(g, createLocation(g.e, payload))

(* module load: the engine booted with the demo stream, one LOCATION template
   per rule, then the first projection *)
ApiBooted ==
  syncEffectiveRulesFromTemplates(
    [e |-> Booted, minMaxRuleTemplates |-> bootstrapTemplates(Booted),
     managedEffectiveRuleIds |-> <<>>])

-----------------------------------------------------------------------------
(* Gateway commands *)

ApplyGw(g) ==
  /\ Apply(g.e)
  /\ minMaxRuleTemplates' = g.minMaxRuleTemplates
  /\ managedEffectiveRuleIds' = g.managedEffectiveRuleIds

TemplateInputs ==
  { [scope |-> "GENERIC", zoneId |-> NONE, selectorMode |-> "SKU",
     skuId |-> "SKU-NR-1", source |-> "NON_RFID", minQty |-> 1, maxQty |-> 2,
     priority |-> 5],
    [scope |-> "LOCATION", zoneId |-> "zone-shelf-a", selectorMode |-> "SKU",
     skuId |-> "SKU-NR-1", source |-> "NON_RFID", minQty |-> 3, maxQty |-> 5,
     priority |-> 3],
    [scope |-> "LOCATION", zoneId |-> "zone-shelf-a", selectorMode |-> "SKU",
     skuId |-> "SKU-NR-1", source |-> "NON_RFID", minQty |-> 0, maxQty |-> 6,
     priority |-> 1],
    [id |-> 1, scope |-> "LOCATION", zoneId |-> "zone-shelf-b",
     selectorMode |-> "SKU", skuId |-> "SKU-NR-1", source |-> "NON_RFID",
     minQty |-> 1, maxQty |-> 3],
    [scope |-> "GENERIC", zoneId |-> NONE, selectorMode |-> "SKU",
     skuId |-> "SKU-RFID-1", source |-> "RFID", minQty |-> 2, maxQty |-> 1,
     priority |-> 2],
    [scope |-> "LOCATION", zoneId |-> "zone-unknown", selectorMode |-> "SKU",
     skuId |-> "SKU-NR-1", source |-> "NON_RFID", minQty |-> 1, maxQty |-> 2,
     priority |-> 2] }

TemplateIds == { 1, 2, 4, 9 }

LegacyRuleInputs ==
  { [zoneId |-> "zone-shelf-a", skuId |-> "SKU-NR-1", source |-> "NON_RFID",
     minQty |-> 1, maxQty |-> 4, priority |-> 4],
    [zoneId |-> "zone-shelf-b", skuId |-> "SKU-NR-1", source |-> "NON_RFID",
     minQty |-> 0, maxQty |-> 2] }

RuleIdInputs ==
  { ruleIdOf("zone-shelf-a", "SKU-NR-1", "NON_RFID"),
    ruleIdOf("zone-shelf-b", "SKU-RFID-1", "RFID"),
    ruleIdOf("zone-shelf-b", "SKU-NR-1", "NON_RFID"),
    ruleIdOf("zone-unknown", "SKU-NR-1", "NON_RFID") }

CreateLocationInputs ==
  { [zoneId |-> "zone-pop-up", isSalesLocation |-> TRUE, polygonPoints |-> 4,
     replenishmentSources |->
       <<[sourceZoneId |-> "zone-warehouse", sortOrder |-> 1]>>],
    [zoneId |-> "zone-shelf-a", isSalesLocation |-> TRUE, polygonPoints |-> 4],
    [zoneId |-> "zone-kiosk", isSalesLocation |-> TRUE, polygonPoints |-> 2] }

UpdateLocationInputs ==
  { [zoneId |-> "zone-shelf-a", replenishmentSources |-> <<>>],
    [zoneId |-> "zone-shelf-b", replenishmentSources |->
       <<[sourceZoneId |-> "zone-warehouse", sortOrder |-> 1]>>],
    [zoneId |-> "zone-unknown", isSalesLocation |-> FALSE] }

UpsertMinMaxRuleTemplate ==
  /\ steps < MaxSteps
  /\ \E payload \in TemplateInputs :
       \E r \in {upsertMinMaxRuleTemplateInternal(Gw, payload)} :
          /\ ApplyGw(r.g)
          /\ ret' = Result("upsertMinMaxRuleTemplate", r.status, payload.zoneId,
                           payload.skuId, 0, r.id, nowCursor)
  /\ steps' = steps + 1

DeleteMinMaxRuleTemplate ==
  /\ steps < MaxSteps
  /\ \E templateId \in TemplateIds :
       \E r \in {deleteMinMaxRuleTemplateInternal(Gw, templateId)} :
          /\ ApplyGw(r.g)
          /\ ret' = Result("deleteMinMaxRuleTemplate", r.status, NONE, NONE, 0,
                           templateId, nowCursor)
  /\ steps' = steps + 1

UpsertMinMaxRule ==
  /\ steps < MaxSteps
  /\ \E payload \in LegacyRuleInputs :
       \E r \in {upsertMinMaxRule(Gw, payload)} :
          /\ ApplyGw(r.g)
          /\ ret' = Result("upsertMinMaxRule", r.status, payload.zoneId,
                           payload.skuId, 0, r.id, nowCursor)
  /\ steps' = steps + 1

(* ret.zoneId and ret.skuId name the rule, ret.qty tells RFID (1) from
   NON_RFID (0) *)
DeleteRule ==
  /\ steps < MaxSteps
  /\ \E ruleId \in RuleIdInputs :
       \E r \in {apiDeleteRule(Gw, ruleId)} :
          /\ ApplyGw(r.g)
          /\ ret' = Result("deleteRule", r.status, ruleId[2], ruleId[3],
                           IF ruleId[4] = "RFID" THEN 1 ELSE 0, 0, nowCursor)
  /\ steps' = steps + 1

CreateLocation ==
  /\ steps < MaxSteps
  /\ \E payload \in CreateLocationInputs :
       \E r \in {apiCreateLocation(Gw, payload)} :
          /\ ApplyGw(r.g)
          /\ ret' = Result("createLocation", r.status, payload.zoneId, NONE, 0,
                           0, nowCursor)
  /\ steps' = steps + 1

UpdateLocation ==
  /\ steps < MaxSteps
  /\ \E payload \in UpdateLocationInputs :
       \E r \in {apiUpdateLocation(Gw, payload)} :
          /\ ApplyGw(r.g)
          /\ ret' = Result("updateLocation", r.status, payload.zoneId, NONE, 0,
                           0, nowCursor)
  /\ steps' = steps + 1

InitApi ==
  \E g \in {ApiBooted} :
     /\ InitEngine(g.e)
     /\ minMaxRuleTemplates = g.minMaxRuleTemplates
     /\ managedEffectiveRuleIds = g.managedEffectiveRuleIds

NextApi ==
  \/ UpsertMinMaxRuleTemplate
  \/ DeleteMinMaxRuleTemplate
  \/ UpsertMinMaxRule
  \/ DeleteRule
  \/ CreateLocation
  \/ UpdateLocation
  \/ IngestSalesEvent
  \/ StartTask

SpecApi == InitApi /\ [][NextApi]_vars

-----------------------------------------------------------------------------
(* Properties of the gateway *)

GatewayCommands ==
  {"upsertMinMaxRuleTemplate", "deleteMinMaxRuleTemplate", "upsertMinMaxRule",
   "deleteRule", "createLocation", "updateLocation"}

(* the active effective rules of an engine, as (key, min, max, priority) *)
ActiveRules(e) ==
  {[key |-> <<e.rules[i].zoneId, e.rules[i].skuId, e.rules[i].source>>,
    minQty |-> e.rules[i].minQty, maxQty |-> e.rules[i].maxQty,
    priority |-> e.rules[i].priority] :
     i \in {j \in 1..Len(e.rules) : e.rules[j].isActive}}

(* the winner set of the active templates over the locations of an engine *)
Projection(e, templates) ==
  LET winnerByKey == electWinners(e, templates, 1, <<>>)
  IN {[key |-> winnerByKey[k].key,
       minQty |-> templates[winnerByKey[k].template].minQty,
       maxQty |-> templates[winnerByKey[k].template].maxQty,
       priority |-> templates[winnerByKey[k].template].priority] :
        k \in 1..Len(winnerByKey)}

(* C17: after every gateway command the active effective rules, with their
   min, max and priority, are exactly the winners of the projection of the
   active templates over the current locations. *)
C17_RulesEqualProjection ==
  ret.cmd \in GatewayCommands
    => ActiveRules(St) = Projection(St, minMaxRuleTemplates)

(* the keys some active template produces over the current locations *)
ProducedKeys ==
  LET winnerByKey == electWinners(St, minMaxRuleTemplates, 1, <<>>)
  IN {winnerByKey[k].key : k \in 1..Len(winnerByKey)}

ProjectedLast ==
  \/ ret.cmd \in {"deleteMinMaxRuleTemplate", "deleteRule"} /\ ret.status = "deleted"
  \/ ret.cmd \in {"upsertMinMaxRuleTemplate", "upsertMinMaxRule"}
     /\ ret.status \in {"created", "updated"}

(* C16: after a template is deleted (deleteMinMaxRuleTemplate, or deleteRule
   on the effective rule), and after any later projection, every effective
   rule that no active template produces any more is inactive, and each of
   its tasks that was open is REJECTED with closeReason rule_deleted. *)
C16_RuleDeletionCascade ==
  /\ [](ProjectedLast
          => \A i \in 1..Len(rules) :
               <<rules[i].zoneId, rules[i].skuId, rules[i].source>> \notin ProducedKeys
                 => /\ ~rules[i].isActive
                    /\ \A t \in 1..Len(tasks) :
                         tasks[t].ruleId = ruleIdOf(rules[i].zoneId, rules[i].skuId,
                                                    rules[i].source)
                           => ~taskIsOpen(tasks[t].status))
  /\ [][ProjectedLast'
         => \A i \in 1..Len(rules') :
              ~rules'[i].isActive
                => \A t \in 1..Len(tasks) :
                     (/\ tasks[t].ruleId = ruleIdOf(rules'[i].zoneId, rules'[i].skuId,
                                                    rules'[i].source)
                      /\ taskIsOpen(tasks[t].status))
                       => /\ tasks'[t].status = "REJECTED"
                          /\ tasks'[t].closeReason = "rule_deleted"]_vars

(* two gateway states with the same active effective rules and the same
   managed rule ids *)
SameProjection(g1, g2) ==
  /\ ActiveRules(g1.e) = ActiveRules(g2.e)
  /\ SeqToSet(g1.managedEffectiveRuleIds) = SeqToSet(g2.managedEffectiveRuleIds)

ProjectedTwice(g1) == SameProjection(g1, syncEffectiveRulesFromTemplates(g1))

(* C18: from any reachable gateway state, running the projection a second
   time right after a first run leaves the active effective rules (keys,
   min, max, priority) and the managed rule id set as the first run left
   them. *)
C18_ProjectionIdempotent ==
  ProjectedTwice(syncEffectiveRulesFromTemplates(Gw))

(* a state the projection has work to do in: the first run changes the
   active effective rules *)
C18_ProjectionChangesRules ==
  ActiveRules(syncEffectiveRulesFromTemplates(Gw).e) # ActiveRules(St)

(* the order of the election: scope (LOCATION above GENERIC), then the
   template's priority, then its updatedAt *)
ScopeRank(template) == IF template.scope = "LOCATION" THEN 2 ELSE 1

RanksAtLeast(a, b) ==
  \/ ScopeRank(a) > ScopeRank(b)
  \/ ScopeRank(a) = ScopeRank(b) /\ a.priority > b.priority
  \/ ScopeRank(a) = ScopeRank(b) /\ a.priority = b.priority
     /\ a.updatedAt >= b.updatedAt

(* the active templates that produce a key over the current locations *)
Producers(key) ==
  {t \in 1..Len(minMaxRuleTemplates) :
     /\ minMaxRuleTemplates[t].isActive
     /\ key \in SeqToSet(templateKeys(
                  resolveTemplateZoneIds(St, minMaxRuleTemplates[t]),
                  resolveTemplateSkuIds(minMaxRuleTemplates[t]),
                  minMaxRuleTemplates[t].source))}

TemplateProjectedLast ==
  /\ ret.cmd \in {"upsertMinMaxRuleTemplate", "deleteMinMaxRuleTemplate",
                  "upsertMinMaxRule"}
  /\ ret.status \in {"created", "updated", "deleted"}

(* C19: for every key the active templates produce, the elected winner is a
   producer that ranks at least as high as every other producer of the key
   (scope, then priority, then updatedAt), whatever the order the templates
   are stored in; and once the projection has run, the effective rule of the
   key is active with the winner's min, max and priority. *)
C19_WinnerElection ==
  LET winnerByKey == electWinners(St, minMaxRuleTemplates, 1, <<>>)
  IN \A k \in 1..Len(winnerByKey) :
       LET key == winnerByKey[k].key
           winner == minMaxRuleTemplates[winnerByKey[k].template]
       IN /\ winnerByKey[k].template \in Producers(key)
          /\ \A t \in Producers(key) : RanksAtLeast(winner, minMaxRuleTemplates[t])
          /\ TemplateProjectedLast
               => [key |-> key, minQty |-> winner.minQty, maxQty |-> winner.maxQty,
                   priority |-> winner.priority] \in ActiveRules(St)

(* a LOCATION template and a GENERIC template of higher priority, stored
   after it, produce the same key, and the projection has run *)
C19_LocationBeatsGeneric ==
  /\ TemplateProjectedLast
  /\ \E a, b \in 1..Len(minMaxRuleTemplates) :
       \E key \in ProducedKeys :
          /\ a < b
          /\ {a, b} \subseteq Producers(key)
          /\ minMaxRuleTemplates[a].scope = "LOCATION"
          /\ minMaxRuleTemplates[b].scope = "GENERIC"
          /\ minMaxRuleTemplates[b].priority > minMaxRuleTemplates[a].priority

-----------------------------------------------------------------------------
(* Dedup idempotence (ingestRFIDRead called twice with one event) *)

(* the engine after ingestRFIDRead(event) followed by ingestRFIDRead(event),
   against the engine after the first call alone *)
SecondIngestIdle(first, event) ==
  ingestRFIDRead(first.e, event).e = first.e

SecondIngestStatus(first, event) ==
  ingestRFIDRead(first.e, event).status

LoggedStatuses == {"accepted", "duplicate_ignored"}

(* CLAIMS C21 as stated: for every read, the second of two identical calls
   in a row returns duplicate_ignored and leaves the engine as the first
   call left it. *)
C21_SecondReadIsDuplicate ==
  \A event \in ReadInputs :
     /\ SecondIngestIdle(ingestRFIDRead(St, event), event)
     /\ SecondIngestStatus(ingestRFIDRead(St, event), event) = "duplicate_ignored"

(* C21: in every reachable state and for every read, ingesting the read a
   second time right after the first leaves every engine field (read log,
   presence, snapshots, tasks, pending picks, cursor) as the first call left
   it; the second call returns duplicate_ignored when the first one was
   accepted or was itself a duplicate, and repeats the first call's status
   (invalid_antenna_or_zone, unknown_epc) when the first one was refused
   before the read log was consulted or written. *)
C21_DedupIdempotence ==
  \A event \in ReadInputs :
     /\ SecondIngestIdle(ingestRFIDRead(St, event), event)
     /\ ingestRFIDRead(St, event).status \in LoggedStatuses
          => SecondIngestStatus(ingestRFIDRead(St, event), event) = "duplicate_ignored"
     /\ ingestRFIDRead(St, event).status \notin LoggedStatuses
          => SecondIngestStatus(ingestRFIDRead(St, event), event)
               = ingestRFIDRead(St, event).status

(* a read was ingested right after an accepted read of the same tag, antenna
   and timestamp, and was ignored as a duplicate *)
C21_ReadRepeated ==
  /\ ret.cmd = "ingestRFIDRead"
  /\ ret.status = "duplicate_ignored"
  /\ PreviousReadAt(ret.id, primaryAntenna(ret.zoneId)) = ret.t
  /\ nowCursor = ret.t

-----------------------------------------------------------------------------
(* No negative stock *)

(* C22: in every reachable state every snapshot row, of either source, has
   qty >= 0, whatever sequence of reads, sales, returns, cart operations,
   task and receiving confirmations and personalisation transfers led to
   it. *)
C22_NoNegativeStock ==
  \A k \in DOMAIN snapshots : snapshots[k].qty >= 0

(* baseline - sales + returns + confirmed replenishment of (zoneId, skuId),
   before the floor at zero *)
LedgerTotal(zoneId, skuId) ==
  getBaselineSnapshot(St, zoneId, skuId).qty
    - ledgerSum(salesEvents.sale, zoneId, skuId)
    + ledgerSum(salesEvents.return, zoneId, skuId)
    + ledgerSum(replenishmentConfirmations, zoneId, skuId)

(* more units of a NON_RFID SKU were sold at a location than its ledger
   held, and the snapshot written by the sale stands at zero *)
C22_OversoldAtZero ==
  /\ ret.cmd \in {"ingestSalesEvent", "checkoutCustomer"}
  /\ ret.status \in SuccessStatuses
  /\ \E k \in DOMAIN snapshots :
       /\ k[3] = "NON_RFID"
       /\ snapshots[k].qty = 0
       /\ LedgerTotal(k[1], k[2]) < 0

-----------------------------------------------------------------------------
(* Snapshot versions *)

(* Scenario S23: the store of scenario S5 with two units of SKU-NR-JSY on
   zone-shelf-a, after customer cust-2 bought one of them personalised
   (the unit went to zone-cashier-storage and a task to bring it back to the
   shelf was created) and the staff member the task was assigned to started it. *)
S23Seed ==
  DatasetSeed
  @@ (<<"zone-shelf-a", "SKU-NR-JSY">> :> [qty |-> 2, lastCalculatedAt |-> SeedBaselineAt])

S23Dataset ==
  [zones |-> S5Zones, replenishmentRules |-> S5Rules,
   inventorySeed |-> S23Seed, epcSkuMapping |-> S5Mapping,
   staff |-> DatasetStaff]

S23Booted == loadDemoStream(construct(S23Dataset), S5Reads, DemoSales)

S23Sold ==
  checkoutCustomer(
    addCustomerItem(S23Booted,
      [customerId |-> "cust-2", zoneId |-> "zone-shelf-a",
       skuId |-> "SKU-NR-JSY", qty |-> 1, timestamp |-> T1]).e,
    "cust-2", T1).e

S23Started ==
  startTask(S23Sold,
            [taskId |-> Len(S23Sold.tasks),
             staffId |-> S23Sold.tasks[Len(S23Sold.tasks)].assignedStaffId,
             at |-> T1]).e

InitS23 == \E b \in {S23Started} : InitFrom(b)

SpecS23 == InitS23 /\ [][Next]_vars

(* the row of key k was written by the step: it is new or it differs *)
WrittenByStep(k) ==
  \/ k \notin DOMAIN snapshots
  \/ snapshots'[k] # snapshots[k]

(* C23: every step that writes the snapshot of a key leaves it with a
   version strictly greater than every version the key carried before, a
   zone-cashier-storage key whose row was removed at qty 0 and is written
   again included. *)
C23_VersionsIncrease ==
  [][\A k \in DOMAIN snapshots' :
       (WrittenByStep(k) /\ k \in DOMAIN versionSeen)
          => snapshots'[k].version > versionSeen[k]]_vars

-----------------------------------------------------------------------------
(* The whole application: the engine commands and the gateway commands over
   the engine the gateway module builds when it is loaded *)

NextAll ==
  \/ IngestRFIDRead
  \/ ForceZoneSweep
  \/ ScanZone
  \/ IngestSalesEvent
  \/ AddCustomerItem
  \/ RemoveCustomerItem
  \/ CheckoutCustomer
  \/ AssignTask
  \/ StartTask
  \/ ConfirmTask
  \/ CreateReceivingOrder
  \/ ConfirmReceivingOrder
  \/ UpsertMinMaxRuleTemplate
  \/ DeleteMinMaxRuleTemplate
  \/ UpsertMinMaxRule
  \/ DeleteRule
  \/ CreateLocation
  \/ UpdateLocation

SpecAll == InitApi /\ [][NextAll]_vars

-----------------------------------------------------------------------------
(* Task audit *)

(* the audit entries of a task carrying one of the actions *)
AuditEntries(audit, taskId, actions) ==
  Cardinality({i \in 1..Len(audit) :
                 audit[i].taskId = taskId /\ audit[i].action \in actions})

(* the audit actions that report a task reaching a status *)
AuditActionsOf(status) ==
  CASE status = "CREATED" -> {"CREATED"}
    [] status = "ASSIGNED" -> {"ASSIGNED"}
    [] status = "IN_PROGRESS" -> {"STARTED"}
    [] status = "CONFIRMED" -> {"CONFIRMED", "CLOSED"}
    [] status = "REJECTED" -> {"CLOSED", "CANCELLED"}

(* C24: every command that creates a task or changes a task's status
   appends, in the same command, at least one audit entry of that task whose
   action reports the status reached (CREATED for a creation, ASSIGNED,
   STARTED, CONFIRMED or CLOSED for a confirmation, CLOSED or CANCELLED for a
   rejection); a task created by the command has a CREATED entry too. *)
C24_TransitionsAudited ==
  [][\A t \in 1..Len(tasks') :
       /\ t > Len(tasks)
            => /\ AuditEntries(taskAudit', t, {"CREATED"}) >= 1
               /\ AuditEntries(taskAudit', t, AuditActionsOf(tasks'[t].status)) >= 1
       /\ (t <= Len(tasks) /\ tasks'[t].status # tasks[t].status)
            => AuditEntries(taskAudit', t, AuditActionsOf(tasks'[t].status))
                 > AuditEntries(taskAudit, t, AuditActionsOf(tasks'[t].status))]_vars

(* updateLocation just removed a source and cancelled a task that drew on
   it: the task is REJECTED and the audit log carries its CANCELLED entry *)
C24_CancellationAudited ==
  /\ ret.cmd = "updateLocation"
  /\ ret.status = "updated"
  /\ \E t \in 1..Len(tasks) :
       /\ tasks[t].status = "REJECTED"
       /\ tasks[t].closeReason = "source_removed"
       /\ AuditEntries(taskAudit, t, {"CANCELLED"}) = 1
       /\ AuditEntries(taskAudit, t, {"CREATED"}) = 1

-----------------------------------------------------------------------------
(* Staff commands *)

staffExists(e, staffId) ==
  \E i \in 1..Len(e.staff) : e.staff[i].id = staffId

staffIndex(e, staffId) ==
  CHOOSE i \in 1..Len(e.staff) : e.staff[i].id = staffId

(* updateStaffShift without the two auto-assignment passes *)
updateStaffShiftOnly(e, payload) ==
  IF ~staffExists(e, payload.staffId)
  THEN [e |-> e, status |-> "staff_not_found"]
  ELSE [e |-> [e EXCEPT !.staff[staffIndex(e, payload.staffId)].activeShift =
                           payload.activeShift],
        status |-> "updated"]

updateStaffShift(e, payload) ==
  LET e1 == [e EXCEPT !.staff[staffIndex(e, payload.staffId)].activeShift =
                         payload.activeShift]
  IN IF ~staffExists(e, payload.staffId)
     THEN [e |-> e, status |-> "staff_not_found"]
     ELSE [e |-> autoAssignPendingReceivingOrders(
                   autoAssignPendingTasks(e1, e.nowCursor), e.nowCursor),
           status |-> "updated"]

updateStaffScope(e, payload) ==
  LET i == staffIndex(e, payload.staffId)
      e1 == [e EXCEPT
               !.staff[i].scopeAllZones = payload.scopeAllZones,
               !.staff[i].zoneScopeZoneIds =
                  IF payload.scopeAllZones THEN {}
                  ELSE {z \in payload.zoneScopeZoneIds : zoneExists(e, z)}]
  IN IF ~staffExists(e, payload.staffId)
     THEN [e |-> e, status |-> "staff_not_found"]
     ELSE [e |-> autoAssignPendingReceivingOrders(
                   autoAssignPendingTasks(e1, e.nowCursor), e.nowCursor),
           status |-> "updated"]

(* Scenario with the staff of the dataset as a parameter: shifts[i] is
   activeShift of the i-th member, and the third member's scope is either
   the sample's (zone-warehouse) or zone-warehouse and zone-shelf-a *)
StaffScopes == {{"zone-warehouse"}, {"zone-warehouse", "zone-shelf-a"}}

StaffWith(shifts, scope) ==
  [i \in 1..Len(DatasetStaff) |->
     [DatasetStaff[i] EXCEPT
        !.activeShift = shifts[i],
        !.zoneScopeZoneIds = IF i = 3 THEN scope ELSE @]]

StaffDataset(shifts, scope) ==
  [zones |-> DatasetZones, replenishmentRules |-> DatasetRules,
   inventorySeed |-> DatasetSeed, epcSkuMapping |-> DatasetMapping,
   staff |-> StaffWith(shifts, scope)]

StaffBooted(shifts, scope) ==
  loadDemoStream(construct(StaffDataset(shifts, scope)), DemoRfidReads,
                 DemoSales)

ShiftInputs ==
  {[staffId |-> s, activeShift |-> a] :
     s \in {"staff-001", "staff-002", "staff-003", "staff-unknown"},
     a \in BOOLEAN}

ScopeInputs ==
  { [staffId |-> "staff-002", scopeAllZones |-> FALSE, zoneScopeZoneIds |-> {}],
    [staffId |-> "staff-003", scopeAllZones |-> FALSE,
     zoneScopeZoneIds |-> {"zone-shelf-a", "zone-unknown"}],
    [staffId |-> "staff-003", scopeAllZones |-> TRUE,
     zoneScopeZoneIds |-> {"zone-shelf-b"}],
    [staffId |-> "staff-unknown", scopeAllZones |-> TRUE, zoneScopeZoneIds |-> {}] }

UpdateStaffShift ==
  /\ steps < MaxSteps
  /\ \E payload \in ShiftInputs :
       \E r \in {updateStaffShift(St, payload)} :
          /\ Apply(r.e)
          /\ ret' = Result("updateStaffShift", r.status, NONE, NONE, 0, 0,
                           nowCursor)
  /\ steps' = steps + 1
  /\ UNCHANGED gatewayVars

UpdateStaffScope ==
  /\ steps < MaxSteps
  /\ \E payload \in ScopeInputs :
       \E r \in {updateStaffScope(St, payload)} :
          /\ Apply(r.e)
          /\ ret' = Result("updateStaffScope", r.status, NONE, NONE, 0, 0,
                           nowCursor)
  /\ steps' = steps + 1
  /\ UNCHANGED gatewayVars

InitStaff ==
  \E shifts \in [1..Len(DatasetStaff) -> BOOLEAN], scope \in StaffScopes :
     InitFrom(StaffBooted(shifts, scope))

NextStaff ==
  \/ UpdateStaffShift
  \/ UpdateStaffScope
  \/ IngestSalesEvent
  \/ CreateReceivingOrder
  \/ AssignTask
  \/ StartTask

SpecStaff == InitStaff /\ [][NextStaff]_vars

-----------------------------------------------------------------------------
(* Auto-assignment policy *)

(* the eligible pool: the active ASSOCIATEs, or every active member when
   there is no active ASSOCIATE *)
EligiblePool(e) ==
  LET active == {m \in SeqToSet(e.staff) : m.activeShift}
      associates == {m \in active : m.role = "ASSOCIATE"}
  IN IF associates # {} THEN associates ELSE active

(* the pool members in scope of the location, or the whole pool when none
   of them is in scope *)
PoolFor(e, zoneId) ==
  LET scoped == {m \in EligiblePool(e) : inScope(m, zoneId)}
  IN IF scoped # {} THEN scoped ELSE EligiblePool(e)

(* open tasks plus IN_TRANSIT orders assigned to the member *)
CurrentLoad(e, id) ==
  Cardinality({i \in 1..Len(e.tasks) :
                 taskIsOpen(e.tasks[i].status) /\ e.tasks[i].assignedStaffId = id})
  + Cardinality({j \in 1..Len(e.receivingOrders) :
                 e.receivingOrders[j].status = "IN_TRANSIT"
                 /\ e.receivingOrders[j].assignedStaffId = id})

(* the member the policy names: minimum load, then smallest id *)
PolicyMember(e, zoneId) ==
  CHOOSE m \in PoolFor(e, zoneId) :
     \A o \in PoolFor(e, zoneId) :
        \/ CurrentLoad(e, m.id) < CurrentLoad(e, o.id)
        \/ CurrentLoad(e, m.id) = CurrentLoad(e, o.id)
           /\ IdRank[m.id] <= IdRank[o.id]

PendingTaskIds(e) ==
  {i \in 1..Len(e.tasks) :
     e.tasks[i].status = "CREATED" /\ e.tasks[i].assignedStaffId = NONE}

PendingOrderIds(e) ==
  {j \in 1..Len(e.receivingOrders) :
     e.receivingOrders[j].status = "IN_TRANSIT"
     /\ e.receivingOrders[j].assignedStaffId = NONE}

(* the pending item a pass takes first: oldest createdAt, then the position
   in the collection *)
FirstPending(items, ids) ==
  CHOOSE i \in ids :
     \A o \in ids : items[i].createdAt < items[o].createdAt
                    \/ (items[i].createdAt = items[o].createdAt /\ i <= o)

(* the engine after the policy has been applied to every pending task, each
   assignment counting in the load of the next *)
RECURSIVE PolicyTasks(_)
PolicyTasks(e) ==
  IF PendingTaskIds(e) = {} \/ EligiblePool(e) = {} THEN e
  ELSE LET i == FirstPending(e.tasks, PendingTaskIds(e))
       IN PolicyTasks([e EXCEPT
                         !.tasks[i].assignedStaffId =
                            PolicyMember(e, e.tasks[i].zoneId).id,
                         !.tasks[i].status = "ASSIGNED"])

RECURSIVE PolicyOrders(_)
PolicyOrders(e) ==
  IF PendingOrderIds(e) = {} \/ EligiblePool(e) = {} THEN e
  ELSE LET j == FirstPending(e.receivingOrders, PendingOrderIds(e))
       IN PolicyOrders([e EXCEPT
                          !.receivingOrders[j].assignedStaffId =
                             PolicyMember(e, e.receivingOrders[j].destinationZoneId).id])

Assignees(e) ==
  [tasks |-> [i \in 1..Len(e.tasks) |-> e.tasks[i].assignedStaffId],
   orders |-> [j \in 1..Len(e.receivingOrders) |->
                 e.receivingOrders[j].assignedStaffId]]

(* the engine a staff command hands to the two passes: the state before
   the command with the staff as the command left it *)
BeforePasses == [St EXCEPT !.staff = staff']

ManualCommands == {"assignTask", "startTask"}

(* C25: (a) a staff command (updateStaffShift, updateStaffScope) runs the
   pass over the pending tasks and then over the pending orders: every
   pending item gets the member of the eligible pool (in scope of the
   location if any pool member is) with the minimum load at that point of
   the pass, ties to the smaller id, and no item is assigned when the pool
   is empty; (b) createReceivingOrder assigns the order it creates to the
   member the policy names for the destination, and to nobody when the pool
   is empty; (c) in every command other than a manual assignment, a task or
   order that receives an assignee receives a member on active shift who
   belongs to the eligible pool and is in scope whenever some pool member
   is. *)
C25_AutoAssignPolicy ==
  [][/\ (ret'.cmd \in {"updateStaffShift", "updateStaffScope"}
         /\ ret'.status = "updated")
          => Assignees(St)' = Assignees(PolicyOrders(PolicyTasks(BeforePasses)))
     /\ (ret'.cmd = "createReceivingOrder" /\ ret'.status = "created")
          => receivingOrders'[1].assignedStaffId =
               IF EligiblePool(St) = {} THEN NONE
               ELSE PolicyMember(St, receivingOrders'[1].destinationZoneId).id
     /\ ret'.cmd \notin ManualCommands
          => /\ \A i \in 1..Len(tasks') :
                  (tasks'[i].assignedStaffId # NONE
                   /\ (i > Len(tasks) \/ tasks[i].assignedStaffId = NONE))
                    => \E m \in PoolFor(St', tasks'[i].zoneId) :
                          m.id = tasks'[i].assignedStaffId /\ m.activeShift
             /\ \A j \in 1..Len(receivingOrders') :
                  (receivingOrders'[j].assignedStaffId # NONE
                   /\ \A k \in 1..Len(receivingOrders) :
                         receivingOrders[k].id = receivingOrders'[j].id
                           => receivingOrders[k].assignedStaffId = NONE)
                    => \E m \in PoolFor(St', receivingOrders'[j].destinationZoneId) :
                          m.id = receivingOrders'[j].assignedStaffId
                          /\ m.activeShift]_vars

(* createReceivingOrder just assigned the order it created to a pool member
   in scope of the destination whose load was the smaller one, although
   another pool member in scope has the smaller id *)
C25_LoadDecided ==
  /\ ret.cmd = "createReceivingOrder"
  /\ ret.status = "created"
  /\ \E m, o \in PoolFor(St, receivingOrders[1].destinationZoneId) :
       /\ m.id = receivingOrders[1].assignedStaffId
       /\ inScope(m, receivingOrders[1].destinationZoneId)
       /\ inScope(o, receivingOrders[1].destinationZoneId)
       /\ CurrentLoad(St, m.id) - 1 < CurrentLoad(St, o.id)
       /\ IdRank[o.id] < IdRank[m.id]

-----------------------------------------------------------------------------
(* startTask eligibility *)

StartPayload(taskId, staffId) ==
  [taskId |-> taskId, staffId |-> staffId, at |-> T1]

StartableTasks ==
  {t \in 1..Len(tasks) : tasks[t].status \in {"CREATED", "ASSIGNED"}}

OnActiveShift(staffId) ==
  \E m \in SeqToSet(staff) : m.id = staffId /\ m.activeShift

InScopeOf(staffId, zoneId) ==
  \E m \in SeqToSet(staff) : m.id = staffId /\ inScope(m, zoneId)

NoAssignableInScope(zoneId) ==
  \A m \in EligiblePool(St) : ~inScope(m, zoneId)

(* the task of the engine after the call is the task before it, started by
   the staff member *)
StartedBy(after, t, staffId) ==
  after.tasks[t] = [tasks[t] EXCEPT !.status = "IN_PROGRESS",
                                    !.assignedStaffId = staffId]

(* CLAIMS C26 as stated: startTask on a CREATED or ASSIGNED task succeeds
   exactly when the staff is on active shift and in scope of the task's
   location, or is the task's assignee while no assignable staff is in
   scope; otherwise it returns an error and the task is unchanged. *)
C26_StartWheneverEligible ==
  \A t \in StartableTasks, s \in StaffInputs :
     IF \/ OnActiveShift(s) /\ InScopeOf(s, tasks[t].zoneId)
        \/ tasks[t].assignedStaffId = s /\ NoAssignableInScope(tasks[t].zoneId)
     THEN /\ startTask(St, StartPayload(t, s)).status = "started"
          /\ StartedBy(startTask(St, StartPayload(t, s)).e, t, s)
     ELSE /\ startTask(St, StartPayload(t, s)).status # "started"
          /\ startTask(St, StartPayload(t, s)).e.tasks[t] = tasks[t]

(* C26: startTask(task, staff) on a CREATED or ASSIGNED task succeeds (the
   task becomes IN_PROGRESS, assigned to that staff) exactly when the staff
   is on active shift, the task is unassigned or assigned to that staff, and
   the staff is in scope of the task's location or is the task's assignee
   while no assignable staff is in scope of it; in every other case it
   returns an error status and leaves the whole engine unchanged. *)
C26_StartEligibility ==
  \A t \in StartableTasks, s \in StaffInputs :
     IF /\ OnActiveShift(s)
        /\ tasks[t].assignedStaffId \in {NONE, s}
        /\ \/ InScopeOf(s, tasks[t].zoneId)
           \/ tasks[t].assignedStaffId = s
              /\ NoAssignableInScope(tasks[t].zoneId)
     THEN /\ startTask(St, StartPayload(t, s)).status = "started"
          /\ StartedBy(startTask(St, StartPayload(t, s)).e, t, s)
     ELSE /\ startTask(St, StartPayload(t, s)).status
               \in {"staff_not_active", "staff_not_eligible_for_zone",
                    "task_assigned_to_other_staff"}
          /\ startTask(St, StartPayload(t, s)).e = St

(* a task was just started by its assignee, who is out of scope of the
   task's location: the out-of-scope fallback *)
C26_StartedOutOfScope ==
  /\ ret.cmd = "startTask"
  /\ ret.status = "started"
  /\ tasks[ret.id].status = "IN_PROGRESS"
  /\ OnActiveShift(tasks[ret.id].assignedStaffId)
  /\ ~InScopeOf(tasks[ret.id].assignedStaffId, tasks[ret.id].zoneId)

-----------------------------------------------------------------------------
(* Receiving need of a non-sales location *)

InTransitQty(e, zoneId, skuId, source) ==
  SumSeq(MapSeq(SelectSeq(e.receivingOrders,
                  LAMBDA o : o.status = "IN_TRANSIT"
                             /\ o.destinationZoneId = zoneId
                             /\ o.skuId = skuId
                             /\ o.source = source),
                LAMBDA o : o.requestedQty))

NonSalesRules ==
  { i \in 1..Len(rules) :
      /\ rules[i].isActive
      /\ zoneExists(St, rules[i].zoneId)
      /\ ~findZone(St, rules[i].zoneId).isSalesLocation }

CurrentOf(rule) ==
  getCurrentInventoryQty(St, rule.zoneId, rule.skuId, rule.source)

NeedOf(rule) == rule.maxQty - CurrentOf(rule)

InboundEvaluated(e, rule) ==
  evaluateInboundReceivingNeed(e, findZone(e, rule.zoneId), rule,
    getCurrentInventoryQty(e, rule.zoneId, rule.skuId, rule.source))

(* what C27 asks of the engine e2 that the evaluation of the rule leaves *)
InboundCovered(e2, rule, need, before) ==
  /\ InTransitQty(e2, rule.zoneId, rule.skuId, rule.source) >= need
  /\ before >= need => e2.receivingOrders = receivingOrders
  /\ before < need =>
       /\ Len(e2.receivingOrders) = Len(receivingOrders) + 1
       /\ Tail(e2.receivingOrders) = receivingOrders
       /\ e2.receivingOrders[1].status = "IN_TRANSIT"
       /\ e2.receivingOrders[1].destinationZoneId = rule.zoneId
       /\ e2.receivingOrders[1].skuId = rule.skuId
       /\ e2.receivingOrders[1].source = rule.source
       /\ e2.receivingOrders[1].requestedQty = need - before
  /\ InboundEvaluated(e2, rule).receivingOrders = e2.receivingOrders

(* C27: evaluating a non-sales location whose active rule has current <= min
   and max > current leaves IN_TRANSIT receiving orders for (destination,
   SKU, source) that sum to at least max - current; the order the evaluation
   creates requests exactly max - current minus the sum already in transit;
   when that sum covers the need no order is created, and evaluating once
   more creates nothing. *)
C27_InboundNeedCovered ==
  \A i \in NonSalesRules :
     (CurrentOf(rules[i]) <= rules[i].minQty
        /\ rules[i].maxQty > CurrentOf(rules[i]))
        => InboundCovered(InboundEvaluated(St, rules[i]), rules[i],
                          NeedOf(rules[i]),
                          InTransitQty(St, rules[i].zoneId, rules[i].skuId,
                                       rules[i].source))

(* a command other than createReceivingOrder made the evaluation top up an
   order that was already in transit for the same destination and SKU *)
C27_OrderToppedUp ==
  /\ ret.cmd \notin {"boot", "createReceivingOrder"}
  /\ Len(receivingOrders) >= 2
  /\ receivingOrders[1].status = "IN_TRANSIT"
  /\ receivingOrders[1].createdAt = ret.t
  /\ ~findZone(St, receivingOrders[1].destinationZoneId).isSalesLocation
  /\ \E k \in 2..Len(receivingOrders) :
        /\ receivingOrders[k].status = "IN_TRANSIT"
        /\ receivingOrders[k].createdAt < ret.t
        /\ receivingOrders[k].destinationZoneId =
              receivingOrders[1].destinationZoneId
        /\ receivingOrders[k].skuId = receivingOrders[1].skuId

-----------------------------------------------------------------------------
(* Removal of a replenishment source *)

SourceIdsOf(zoneSeq, zoneId) ==
  UNION { { zoneSeq[z].replenishmentSources[k].sourceZoneId :
              k \in 1..Len(zoneSeq[z].replenishmentSources) } :
          z \in { y \in 1..Len(zoneSeq) : zoneSeq[y].id = zoneId } }

(* C28: after updateLocation removes a source from a location's source list,
   no open task (CREATED, ASSIGNED, IN_PROGRESS) with that location as
   destination has the removed source as sourceZoneId, and the tasks that had
   it are REJECTED with closeReason source_removed. *)
C28_SourceRemovalCancels ==
  [][(ret'.cmd = "updateLocation" /\ ret'.status = "updated")
       => \A src \in SourceIdsOf(zones, ret'.zoneId)
                       \ SourceIdsOf(zones', ret'.zoneId) :
            /\ \A i \in 1..Len(tasks') :
                  (taskIsOpen(tasks'[i].status) /\ tasks'[i].zoneId = ret'.zoneId)
                     => tasks'[i].sourceZoneId # src
            /\ \A i \in 1..Len(tasks) :
                  (/\ taskIsOpen(tasks[i].status)
                   /\ tasks[i].zoneId = ret'.zoneId
                   /\ tasks[i].sourceZoneId = src)
                     => /\ tasks'[i].status = "REJECTED"
                        /\ tasks'[i].closeReason = "source_removed"]_vars

(* updateLocation took the warehouse off shelf A and a task that was being
   carried out from the warehouse is now rejected for that reason *)
C28_RunningTaskCancelled ==
  /\ ret.cmd = "updateLocation"
  /\ ret.status = "updated"
  /\ "zone-warehouse" \notin SourceIdsOf(zones, ret.zoneId)
  /\ \E i \in 1..Len(tasks) :
        /\ tasks[i].zoneId = ret.zoneId
        /\ tasks[i].sourceZoneId = "zone-warehouse"
        /\ tasks[i].status = "REJECTED"
        /\ tasks[i].closeReason = "source_removed"
        /\ AuditEntries(taskAudit, i, {"STARTED"}) > 0

-----------------------------------------------------------------------------
(* Merge of the open tasks of one rule *)

SalesRuleIndexes ==
  { i \in 1..Len(rules) :
      /\ rules[i].isActive
      /\ zoneExists(St, rules[i].zoneId)
      /\ findZone(St, rules[i].zoneId).isSalesLocation }

(* the CREATED and ASSIGNED tasks of the rule *)
Mergeable(rule) ==
  { t \in 1..Len(tasks) :
      /\ tasks[t].ruleId = ruleIdOf(rule.zoneId, rule.skuId, rule.source)
      /\ tasks[t].status \in {"CREATED", "ASSIGNED"} }

OldestOf(taskIds) ==
  CHOOSE t \in taskIds :
     \A u \in taskIds :
        \/ tasks[t].createdAt < tasks[u].createdAt
        \/ tasks[t].createdAt = tasks[u].createdAt /\ t <= u

RECURSIVE DeficitOver(_)
DeficitOver(taskIds) ==
  IF taskIds = {} THEN 0
  ELSE LET t == CHOOSE u \in taskIds : TRUE
       IN tasks[t].deficitQty + DeficitOver(taskIds \ {t})

MergeApplies(rule) ==
  /\ Cardinality(Mergeable(rule)) >= 2
  /\ \/ Len(findZone(St, rule.zoneId).replenishmentSources) <= 1
     \/ Cardinality({tasks[t].sourceZoneId : t \in Mergeable(rule)}) = 1

(* what C29 asks of the engine e2 that the merge step leaves *)
MergedInto(e2, merged, keeper) ==
  /\ taskIsOpen(e2.tasks[keeper].status)
  /\ e2.tasks[keeper].deficitQty = DeficitOver(merged)
  /\ \A t \in merged \ {keeper} :
        /\ e2.tasks[t].status = "REJECTED"
        /\ e2.tasks[t].closeReason = "merged_plan"

(* C29: when the evaluation finds two or more CREATED/ASSIGNED tasks of one
   rule and the destination has at most one source or the tasks share one
   source, the merge step leaves exactly the oldest of them open with a
   deficit equal to the sum of the deficits of all merged tasks, and every
   younger one REJECTED with closeReason merged_plan. *)
C29_MergeKeepsOldest ==
  \A i \in SalesRuleIndexes :
     MergeApplies(rules[i])
        => MergedInto(mergeStep(St, findZone(St, rules[i].zoneId), rules[i]).e,
                      Mergeable(rules[i]), OldestOf(Mergeable(rules[i])))

(* a command's evaluation merged a younger task into an older one that is
   still open and now carries more than the younger one did *)
C29_Merged ==
  \E t \in 1..Len(tasks), k \in 1..Len(tasks) :
     /\ k < t
     /\ tasks[t].status = "REJECTED"
     /\ tasks[t].closeReason = "merged_plan"
     /\ tasks[k].ruleId = tasks[t].ruleId
     /\ taskIsOpen(tasks[k].status)
     /\ tasks[k].deficitQty > tasks[t].deficitQty

-----------------------------------------------------------------------------
(* Conservation of the NON_RFID stock of the internal locations *)

RECURSIVE QtyOver(_, _)
QtyOver(snaps, keys) ==
  IF keys = {} THEN 0
  ELSE LET k == CHOOSE x \in keys : TRUE
       IN snaps[k].qty + QtyOver(snaps, keys \ {k})

(* sum of the snapshot qty of one SKU over all locations of the engine *)
InternalQty(snaps, skuId) ==
  QtyOver(snaps, { k \in DOMAIN snaps : k[2] = skuId /\ k[3] = "NON_RFID" })

NonRfidSkus == { s \in DOMAIN skuSourceById : skuSourceById[s] = "NON_RFID" }

(* the step confirms a receiving order that comes from an external source *)
ExternalOrderConfirmed ==
  /\ ret'.cmd = "confirmReceivingOrder"
  /\ \E i \in 1..Len(receivingOrders) :
        /\ receivingOrders[i].id = ret'.id
        /\ startsWithExternal(receivingOrders[i].sourceLocationId)

(* the step records sales or returns *)
SaleOrReturn ==
  ret'.cmd = "ingestSalesEvent" \/ salesEvents' # salesEvents

(* C30: for every NON_RFID SKU the sum of the snapshot qty over all internal
   locations changes only through sales, returns and the confirmation of
   external receiving orders; task confirmation, confirmation of an internal
   receiving order, personalisation routing and every later recompute leave
   the sum unchanged. *)
C30_InternalStockConserved ==
  [][(~SaleOrReturn /\ ~ExternalOrderConfirmed)
       => \A s \in NonRfidSkus :
             InternalQty(snapshots', s) = InternalQty(snapshots, s)]_vars

-----------------------------------------------------------------------------
(* Source candidates of the open tasks after an evaluation *)

(* the engine after the shelf A task was started and then confirmed with
   quantity 0 and the override source zone-shelf-b: nothing is moved,
   confirmTask returns null and the task stays IN_PROGRESS *)
S31Started ==
  startTask(Booted, [taskId |-> 2, staffId |-> Booted.tasks[2].assignedStaffId,
                     at |-> T1]).e

S31Overridden ==
  confirmTask(S31Started, 2, [confirmedQty |-> 0,
                              sourceZoneId |-> "zone-shelf-b",
                              confirmedAt |-> T1]).e

InitS31 == \E b \in {S31Overridden} : InitFrom(b)

SpecS31 == InitS31 /\ [][Next]_vars

CandidateIds(candidates) ==
  { candidates[k].sourceZoneId : k \in 1..Len(candidates) }

(* the candidates list the destination's sources in their order *)
CandidatesFollowSources(t, rule) ==
  LET built == buildSourceCandidates(St, rule, t)
  IN /\ Len(tasks[t].sourceCandidates) = Len(built)
     /\ \A k \in 1..Len(built) :
           /\ tasks[t].sourceCandidates[k].sourceZoneId = built[k].sourceZoneId
           /\ tasks[t].sourceCandidates[k].sortOrder = built[k].sortOrder

(* the task's selection is one of its candidates (none when it has none) *)
SelectionValid(t) ==
  IF tasks[t].sourceCandidates = <<>>
  THEN tasks[t].sourceZoneId = NONE
  ELSE tasks[t].sourceZoneId \in CandidateIds(tasks[t].sourceCandidates)

(* C31: after the min/max evaluation of a sales location every open task of
   an active rule of it has sourceCandidates rebuilt from the destination's
   ordered source list and its sourceZoneId is one of those candidates: a
   selection that no longer appears among them (left, for example, by a
   confirmTask override that moved nothing) is reset. *)
C31_SelectionAmongCandidates ==
  \A i \in SalesRules :
     (EvaluatedLast(rules[i].zoneId) /\ rules[i].isActive)
        => \A t \in OpenTasksOf(rules[i]) :
              /\ CandidatesFollowSources(t, rules[i])
              /\ SelectionValid(t)

-----------------------------------------------------------------------------
(* Work in progress under the evaluation *)

InProgressBefore == { t \in 1..Len(tasks) : tasks[t].status = "IN_PROGRESS" }

KeptInProgress(t) ==
  /\ tasks'[t].status = "IN_PROGRESS"
  /\ tasks'[t].deficitQty = tasks[t].deficitQty
  /\ tasks'[t].assignedStaffId = tasks[t].assignedStaffId

(* the commands C32 lets end work in progress: confirmation, deletion of the
   rule (directly or through its template) and removal of a source *)
EndsWorkInProgress ==
  ret'.cmd \in {"confirmTask", "deleteRule", "deleteMinMaxRuleTemplate",
                "upsertMinMaxRuleTemplate", "upsertMinMaxRule",
                "updateLocation"}

(* C32: the min/max evaluation changes the status or deficitQty only of
   CREATED/ASSIGNED tasks; an IN_PROGRESS task keeps its status, deficitQty
   and assignee through any recompute and leaves IN_PROGRESS only by
   confirmTask, rule deletion or source removal. *)
C32_WorkInProgressKept ==
  [][~EndsWorkInProgress => \A t \in InProgressBefore : KeptInProgress(t)]_vars

-----------------------------------------------------------------------------
(* Trim of a plan that exceeds the need *)

(* sum of the deficits of the given tasks in the task list taskSeq *)
RECURSIVE DeficitIn(_, _)
DeficitIn(taskSeq, taskIds) ==
  IF taskIds = {} THEN 0
  ELSE LET t == CHOOSE u \in taskIds : TRUE
       IN taskSeq[t].deficitQty + DeficitIn(taskSeq, taskIds \ {t})

OpenIn(taskSeq, ruleId) ==
  { t \in 1..Len(taskSeq) :
      taskSeq[t].ruleId = ruleId /\ taskIsOpen(taskSeq[t].status) }

(* position of a task among the adjustable tasks, oldest first *)
PositionIn(seq, t) == CHOOSE k \in 1..Len(seq) : seq[k] = t

(* what C33 asks of the task list `after` that the trim makes of `before` *)
Trimmed(before, after, ruleId, adjustable, desired) ==
  /\ DeficitIn(after, OpenIn(after, ruleId)) = desired
  /\ \A t \in 1..Len(before) :
        after[t] # before[t]
           => /\ t \in SeqToSet(adjustable)
              /\ \/ /\ after[t].status = "REJECTED"
                    /\ after[t].closeReason = "plan_adjusted"
                    /\ after[t].deficitQty = before[t].deficitQty
                 \/ /\ after[t].status = before[t].status
                    /\ after[t].deficitQty < before[t].deficitQty
              /\ \A u \in SeqToSet(adjustable) :
                    PositionIn(adjustable, u) > PositionIn(adjustable, t)
                       => after[u].status = "REJECTED"
  /\ \A t \in OpenIn(after, ruleId) :
        before[t].deficitQty > 0 => after[t].deficitQty > 0

TrimOf(merged, rule, currentQty) ==
  trimStep(merged.e, rule, currentQty, merged.openTasks,
           merged.autoRejectableTasks).e

TrimHolds(merged, rule, currentQty) ==
  (currentQty < rule.maxQty
     /\ DeficitIn(merged.e.tasks, SeqToSet(merged.openTasks))
          > Max(0, rule.maxQty - currentQty))
    => Trimmed(merged.e.tasks, TrimOf(merged, rule, currentQty).tasks,
               ruleIdOf(rule.zoneId, rule.skuId, rule.source),
               merged.autoRejectableTasks, Max(0, rule.maxQty - currentQty))

(* C33: when the deficits of a rule's open tasks sum to more than desired =
   max(0, max - current) and current < max, the evaluation walks the
   CREATED/ASSIGNED tasks newest first, closes a task with plan_adjusted when
   its whole deficit is surplus and otherwise reduces its deficit, until the
   open deficits sum to desired; an older task is changed only after all
   newer ones are closed and no open task is left with deficit 0. *)
C33_TrimToDesired ==
  \A i \in SalesRuleIndexes :
     TrimHolds(mergeStep(St, findZone(St, rules[i].zoneId), rules[i]), rules[i],
               getCurrentInventoryQty(St, rules[i].zoneId, rules[i].skuId,
                                      rules[i].source))

-----------------------------------------------------------------------------
(* Allocation of a new need over the sources of the destination *)

(* a store whose shelf A draws on the warehouse first and on shelf B second,
   with the NON_RFID stock of the two sources drawn from S34Stocks; shelf B
   has a rule of its own for the SKU *)
S34Zones ==
  << [id |-> "zone-shelf-a", isSalesLocation |-> TRUE,
      replenishmentSources |->
        <<[sourceZoneId |-> "zone-shelf-b", sortOrder |-> 2],
          [sourceZoneId |-> "zone-warehouse", sortOrder |-> 1]>>],
     DatasetZones[2], DatasetZones[3] >>

S34Rules ==
  << [zoneId |-> "zone-shelf-a", skuId |-> "SKU-NR-1", source |-> "NON_RFID",
      minQty |-> 2, maxQty |-> 6, isActive |-> TRUE, priority |-> 1, updatedAt |-> 0],
     [zoneId |-> "zone-shelf-b", skuId |-> "SKU-NR-1", source |-> "NON_RFID",
      minQty |-> 1, maxQty |-> 3, isActive |-> TRUE, priority |-> 1, updatedAt |-> 0],
     DatasetRules[2], DatasetRules[3] >>

S34Stocks == { <<2, 2>>, <<0, 0>>, <<0, 2>> }

S34Seed(stock) ==
  (<<"zone-shelf-a", "SKU-NR-1">> :> [qty |-> 5, lastCalculatedAt |-> SeedBaselineAt])
  @@ (<<"zone-warehouse", "SKU-NR-1">> :>
        [qty |-> stock[1], lastCalculatedAt |-> SeedBaselineAt])
  @@ (<<"zone-shelf-b", "SKU-NR-1">> :>
        [qty |-> stock[2], lastCalculatedAt |-> SeedBaselineAt])

S34Booted(stock) ==
  loadDemoStream(
    construct([zones |-> S34Zones, replenishmentRules |-> S34Rules,
               inventorySeed |-> S34Seed(stock),
               epcSkuMapping |-> DatasetMapping, staff |-> DatasetStaff]),
    DemoRfidReads, DemoSales)

InitS34 == \E stock \in S34Stocks : InitFrom(S34Booted(stock))

SpecS34 == InitS34 /\ [][Next]_vars

(* lines 441-443 and 232-265: the sale is recorded and the snapshots of its
   zone are rewritten; the evaluation of the zone has not run yet *)
salesRecorded(e, event) ==
  [e EXCEPT
     !.salesEvents.sale =
        IF event.eventType = "SALE"
        THEN addToLedger(@, e, event.zoneId, event.skuId, event.qty,
                         event.timestamp)
        ELSE @,
     !.salesEvents.return =
        IF event.eventType = "RETURN"
        THEN addToLedger(@, e, event.zoneId, event.skuId, event.qty,
                         event.timestamp)
        ELSE @,
     !.nowCursor = event.timestamp]

snapshotsWritten(e, zoneId) ==
  writeNonRfidSnapshots(
    writeRfidSnapshots(e, zoneId, rfidSkuCandidates(e, zoneId)),
    zoneId, nonRfidSkusInZone(e, zoneId))

BeforeEvaluation(event) == snapshotsWritten(salesRecorded(St, event), event.zoneId)

(* lines 301-366 on the engine e: the engine at the trigger of the rule *)
atTrigger(e, rule, merged, currentQty) ==
  refreshLoop(trimStep(merged.e, rule, currentQty, merged.openTasks,
                       merged.autoRejectableTasks).e,
              rule, merged.openTasks)

AtTrigger(e, rule) ==
  atTrigger(e, rule, mergeStep(e, findZone(e, rule.zoneId), rule),
            getCurrentInventoryQty(e, rule.zoneId, rule.skuId, rule.source))

(* the tasks the trigger appends to the task list of p *)
CreatedBy(p, after) == SubSeq(after.tasks, Len(p.tasks) + 1, Len(after.tasks))

RECURSIVE DeficitOfSeq(_)
DeficitOfSeq(taskSeq) ==
  IF taskSeq = <<>> THEN 0
  ELSE Head(taskSeq).deficitQty + DeficitOfSeq(Tail(taskSeq))

CandidateAt(candidates, sourceZoneId) ==
  CHOOSE k \in 1..Len(candidates) : candidates[k].sourceZoneId = sourceZoneId

(* what C34 asks of the tasks `made` for the need `remaining` *)
Allocated(made, candidates, remaining) ==
  IF \E k \in 1..Len(candidates) : candidates[k].availableQty > 0
  THEN /\ \A j \in 1..Len(made) :
             /\ made[j].sourceZoneId \in
                  { candidates[k].sourceZoneId : k \in 1..Len(candidates) }
             /\ made[j].deficitQty > 0
             /\ made[j].deficitQty =
                  Min(remaining - DeficitOfSeq(SubSeq(made, 1, j - 1)),
                      candidates[CandidateAt(candidates,
                                             made[j].sourceZoneId)].availableQty)
             /\ \A i \in 1..(j - 1) :
                   CandidateAt(candidates, made[i].sourceZoneId)
                     < CandidateAt(candidates, made[j].sourceZoneId)
       /\ DeficitOfSeq(made) <= remaining
       /\ \A k \in 1..Len(candidates) :
             (\A j \in 1..Len(made) :
                 made[j].sourceZoneId # candidates[k].sourceZoneId)
               => \/ candidates[k].availableQty = 0
                  \/ DeficitOfSeq(
                       SelectSeq(made, LAMBDA m :
                          CandidateAt(candidates, m.sourceZoneId) < k))
                     = remaining
  ELSE /\ Len(made) = 1
       /\ made[1].deficitQty = remaining
       /\ made[1].sourceZoneId =
            IF candidates = <<>> THEN NONE ELSE candidates[1].sourceZoneId

TriggerHolds(p, rule, currentQty, planned) ==
  (currentQty <= rule.minQty /\ rule.maxQty - currentQty - planned > 0)
    => Allocated(
         CreatedBy(p, triggerStep(p, rule, currentQty,
                                  Max(0, rule.maxQty - currentQty), planned)),
         buildSourceCandidates(p, rule, 0),
         rule.maxQty - currentQty - planned)

TriggerAt(p, rule) ==
  TriggerHolds(p, rule,
    getCurrentInventoryQty(p, rule.zoneId, rule.skuId, rule.source),
    DeficitIn(p.tasks,
              OpenIn(p.tasks, ruleIdOf(rule.zoneId, rule.skuId, rule.source))))

(* C34: when current <= min and remaining = desired - planned > 0 the
   evaluation creates tasks over the destination's sources in sortOrder, one
   per source with deficit = min(remaining so far, availableQty of the
   source), skipping sources with nothing available; the created deficits sum
   to at most remaining and none exceeds what its source has available; when
   no source has stock exactly one task for the whole remaining quantity is
   created on the first source. *)
C34_TriggerAllocation ==
  \A event \in SaleInputs :
     \A i \in SalesRuleIndexes :
        (rules[i].zoneId = event.zoneId /\ sourceOfSku(event.skuId) = "NON_RFID")
           => TriggerAt(AtTrigger(BeforeEvaluation(event), rules[i]), rules[i])

(* a sale made the evaluation split the need over both sources of shelf A *)
C34_SplitOverSources ==
  /\ ret.cmd = "ingestSalesEvent"
  /\ ret.status = "accepted"
  /\ \E t \in 1..Len(tasks), u \in 1..Len(tasks) :
        /\ t < u
        /\ tasks[t].ruleId = tasks[u].ruleId
        /\ tasks[t].createdAt = ret.t
        /\ tasks[u].createdAt = ret.t
        /\ tasks[t].sourceZoneId = "zone-warehouse"
        /\ tasks[u].sourceZoneId = "zone-shelf-b"
        /\ tasks[t].deficitQty = 2
        /\ tasks[u].deficitQty = 2

-----------------------------------------------------------------------------
(* Visibility of low stock *)

(* C35: after any command, every active rule of a sales location whose
   snapshot qty is <= min and < max has at least one open replenishment task
   (also when no source has stock, when the location has no sources, after a
   task of the rule was rejected or partially confirmed, and when the stock
   was lowered by serving as a source). *)
C35_LowStockVisible ==
  \A i \in SalesRuleIndexes :
     (/\ SnapshotQty(rules[i].zoneId, rules[i].skuId, rules[i].source)
           <= rules[i].minQty
      /\ SnapshotQty(rules[i].zoneId, rules[i].skuId, rules[i].source)
           < rules[i].maxQty)
        => OpenTasksOf(rules[i]) # {}

-----------------------------------------------------------------------------
(* A second recompute of the same location *)

(* ids, status, deficitQty and sourceZoneId of the open tasks of a location *)
OpenPlan(e, zoneId) ==
  { <<t, e.tasks[t].status, e.tasks[t].deficitQty, e.tasks[t].sourceZoneId>> :
      t \in { u \in 1..Len(e.tasks) :
                e.tasks[u].zoneId = zoneId /\ taskIsOpen(e.tasks[u].status) } }

SamePlan(first, second, zoneId) ==
  /\ OpenPlan(second, zoneId) = OpenPlan(first, zoneId)
  /\ Len(second.tasks) = Len(first.tasks)
  /\ second.receivingOrders = first.receivingOrders

RecomputedTwice(first, zoneId) ==
  SamePlan(first, calculateZoneInventory(first, zoneId), zoneId)

(* C36: recomputing a location a second time right after a recompute, with
   no command and no cursor change in between, leaves the open tasks of the
   location (ids, status, deficitQty, sourceZoneId) and the receiving orders
   as the first recompute left them: the second pass creates, merges, trims
   and closes nothing. *)
C36_RecomputeIdempotent ==
  \A z \in 1..Len(zones) :
     RecomputedTwice(calculateZoneInventory(St, zones[z].id), zones[z].id)

-----------------------------------------------------------------------------
(* Pending work and the read operations *)

(* lines 744-754: the reads run the auto-assignment before they answer *)
getTasks(e) == autoAssignPendingTasks(e, e.nowCursor)

getReceivingOrders(e) == autoAssignPendingReceivingOrders(e, e.nowCursor)

SomeoneOnShift == \E m \in 1..Len(staff) : staff[m].activeShift

(* C37: after any command, if at least one staff member is on active shift,
   no task is in status CREATED and no IN_TRANSIT receiving order is without
   an assignee; hence getTasks and getReceivingOrders, which re-run the
   auto-assignment, do not change the engine. *)
C37_NothingPending ==
  SomeoneOnShift
    => /\ \A t \in 1..Len(tasks) : tasks[t].status # "CREATED"
       /\ \A j \in 1..Len(receivingOrders) :
             receivingOrders[j].status = "IN_TRANSIT"
                => receivingOrders[j].assignedStaffId # NONE
       /\ getTasks(St) = St
       /\ getReceivingOrders(St) = St

(* a shift change left exactly one member on shift, and every open task is
   assigned although some lie outside that member's scope *)
C37_LoneMemberHoldsAll ==
  /\ ret.cmd = "updateStaffShift"
  /\ ret.status = "updated"
  /\ Cardinality({m \in 1..Len(staff) : staff[m].activeShift}) = 1
  /\ \E m \in 1..Len(staff) :
        /\ staff[m].activeShift
        /\ \E t \in 1..Len(tasks) :
              /\ tasks[t].status = "ASSIGNED"
              /\ tasks[t].assignedStaffId = staff[m].id
              /\ ~inScope(staff[m], tasks[t].zoneId)

-----------------------------------------------------------------------------
(* Scenario Cart: two tags of SKU-RFID-1 on zone-shelf-b and one in the
   warehouse; customers reserve one or two units on the shelf, the antennas
   read the tags again before and after their presence expires, and the
   items are removed or checked out. *)

MaxCartSteps == 4

T3 == T2 + dedupWindowSec + 5

CartReads ==
  << [epc |-> 1, antennaId |-> "ant-warehouse-1", zoneId |-> "zone-warehouse",
      timestamp |-> InitialCursor + 5],
     [epc |-> 2, antennaId |-> "ant-kids-1", zoneId |-> "zone-shelf-b",
      timestamp |-> InitialCursor + 6],
     [epc |-> 3, antennaId |-> "ant-kids-1", zoneId |-> "zone-shelf-b",
      timestamp |-> InitialCursor + 7] >>

CartBooted == loadDemoStream(Constructed, CartReads, DemoSales)

InitCart == \E b \in {CartBooted} : InitFrom(b)

CartAddInputs ==
  { [customerId |-> "cust-1", zoneId |-> "zone-shelf-b", skuId |-> "SKU-RFID-1",
     qty |-> 1, timestamp |-> T1],
    [customerId |-> "cust-1", zoneId |-> "zone-shelf-b", skuId |-> "SKU-RFID-1",
     qty |-> 2, timestamp |-> T1],
    [customerId |-> "cust-2", zoneId |-> "zone-shelf-b", skuId |-> "SKU-RFID-1",
     qty |-> 1, timestamp |-> T1] }

CartReadInputs ==
  { [epc |-> 2, antennaId |-> "ant-kids-1", zoneId |-> "zone-shelf-b",
     timestamp |-> T2],
    [epc |-> 2, antennaId |-> "ant-kids-1", zoneId |-> "zone-shelf-b",
     timestamp |-> T3],
    [epc |-> 2, antennaId |-> "ant-warehouse-1", zoneId |-> "zone-warehouse",
     timestamp |-> T2],
    [epc |-> 3, antennaId |-> "ant-kids-1", zoneId |-> "zone-shelf-b",
     timestamp |-> T1] }

CartSweepInputs == { <<"zone-shelf-b", T1>>, <<"zone-shelf-b", T2>> }

CartTimes == { T1, T3 }

CartAddItem ==
  /\ steps < MaxCartSteps
  /\ \E payload \in CartAddInputs :
       \E r \in {addCustomerItem(St, payload)} :
          /\ Apply(r.e)
          /\ ret' = Result("addCustomerItem", r.status, payload.zoneId,
                           payload.skuId, payload.qty, 0, payload.timestamp)
  /\ steps' = steps + 1
  /\ UNCHANGED gatewayVars

CartReadTag ==
  /\ steps < MaxCartSteps
  /\ \E event \in CartReadInputs :
       \E r \in {ingestRFIDRead(St, event)} :
          /\ Apply(r.e)
          /\ ret' = Result("ingestRFIDRead", r.status, event.zoneId, NONE, 0,
                           event.epc, event.timestamp)
  /\ steps' = steps + 1
  /\ UNCHANGED gatewayVars

CartSweep ==
  /\ steps < MaxCartSteps
  /\ \E in \in CartSweepInputs :
       \E r \in {forceZoneSweep(St, in[1], in[2])} :
          /\ Apply(r.e)
          /\ ret' = Result("forceZoneSweep", r.status, in[1], NONE, 0, 0, in[2])
  /\ steps' = steps + 1
  /\ UNCHANGED gatewayVars

CartRemoveItem ==
  /\ steps < MaxCartSteps
  /\ \E id \in 1..(Len(customerBasketItems) + 1), at \in CartTimes :
       \E r \in {removeCustomerItem(St, [basketItemId |-> id, timestamp |-> at])} :
          /\ Apply(r.e)
          /\ ret' = Result("removeCustomerItem", r.status, NONE, NONE,
                           r.restoredQty, id, at)
  /\ steps' = steps + 1
  /\ UNCHANGED gatewayVars

CartCheckout ==
  /\ steps < MaxCartSteps
  /\ \E at \in CartTimes :
       \E r \in {checkoutCustomer(St, "cust-1", at)} :
          /\ Apply(r.e)
          /\ ret' = Result("checkoutCustomer", r.status, NONE, NONE, 0, 0, at)
  /\ steps' = steps + 1
  /\ UNCHANGED gatewayVars

NextCart ==
  \/ CartAddItem
  \/ CartReadTag
  \/ CartSweep
  \/ CartRemoveItem
  \/ CartCheckout

SpecCart == InitCart /\ [][NextCart]_vars

-----------------------------------------------------------------------------
(* C38: pending-pick accounting of the RFID items in a cart *)

PicksOf(id) ==
  {i \in 1..Len(pendingRFIDPicks) : pendingRFIDPicks[i].basketItemId = id}

RfidInCart ==
  {id \in 1..Len(customerBasketItems) :
     /\ customerBasketItems[id].status = "IN_CART"
     /\ sourceOfSku(customerBasketItems[id].skuId) = "RFID"}

PickAccounted(id, i) ==
  LET item == customerBasketItems[id]
      pick == pendingRFIDPicks[i]
  IN /\ item.pickedConfirmedQty = Len(pick.consumedEpcs)
     /\ item.pickedConfirmedQty + pick.qtyRemaining = item.qty
     /\ 0 <= item.pickedConfirmedQty
     /\ item.pickedConfirmedQty <= item.qty
     /\ (pick.status = "COMPLETED") <=> (pick.qtyRemaining = 0)

(* the branch of lines 557-566 of removeCustomerItem *)
LegacyRepairTaken(e, id) ==
  e.customerBasketItems[id].pickedConfirmedQty > consumedCount(e, id)

(* C38: every IN_CART basket item of an RFID SKU has exactly one pending pick;
   pickedConfirmedQty is the number of EPCs the pick consumed,
   pickedConfirmedQty + qtyRemaining = qty, 0 <= pickedConfirmedQty <= qty,
   the pick is COMPLETED exactly when qtyRemaining = 0, and removing the item
   would not take the legacy-repair branch *)
C38_PendingPickAccounting ==
  \A id \in RfidInCart :
     /\ Cardinality(PicksOf(id)) = 1
     /\ \A i \in PicksOf(id) : PickAccounted(id, i)
     /\ ~LegacyRepairTaken(St, id)

C38_PartlyPicked ==
  \E id \in RfidInCart : \E i \in PicksOf(id) :
     /\ customerBasketItems[id].pickedConfirmedQty > 0
     /\ pendingRFIDPicks[i].qtyRemaining > 0
     /\ pendingRFIDPicks[i].status = "IN_PROGRESS"

C38_FullyPicked ==
  \E id \in RfidInCart : \E i \in PicksOf(id) :
     /\ customerBasketItems[id].pickedConfirmedQty = customerBasketItems[id].qty
     /\ pendingRFIDPicks[i].status = "COMPLETED"

-----------------------------------------------------------------------------
(* C39: an RFID tag is counted once *)

KnownEpcs == {mapping[i].epc : i \in 1..Len(mapping)}

PresentCopies(epc) ==
  Cardinality({i \in 1..Len(epcPresence) : epcPresence[i].epc = epc})

HeldCopies(epc) ==
  SumSeq([i \in 1..Len(pendingRFIDPicks) |->
            Cardinality({k \in 1..Len(pendingRFIDPicks[i].consumedEpcs) :
                           pendingRFIDPicks[i].consumedEpcs[k] = epc})])

(* C39: every EPC is in at most one place: one entry of the presence store,
   or one position of the consumedEpcs of one pending pick *)
C39_TagCountedOnce ==
  \A epc \in KnownEpcs : PresentCopies(epc) + HeldCopies(epc) <= 1

-----------------------------------------------------------------------------
(* C40: the cart add / remove round trip of an RFID item *)

RemoveOf(e, id, at) ==
  removeCustomerItem(e, [basketItemId |-> id, timestamp |-> at])

(* the EPCs the picks of basket item id hold, in pick order *)
RECURSIVE HeldFrom(_, _, _)
HeldFrom(e, id, i) ==
  IF i > Len(e.pendingRFIDPicks) THEN <<>>
  ELSE (IF e.pendingRFIDPicks[i].basketItemId = id
        THEN e.pendingRFIDPicks[i].consumedEpcs ELSE <<>>)
       \o HeldFrom(e, id, i + 1)

HeldBy(e, id) == HeldFrom(e, id, 1)

BoundTo(e, epc, zoneId, skuId, at) ==
  \E i \in 1..Len(e.epcPresence) :
     /\ e.epcPresence[i].epc = epc
     /\ e.epcPresence[i].zoneId = zoneId
     /\ e.epcPresence[i].skuId = skuId
     /\ e.epcPresence[i].lastSeenAt = at

(* lines 527-580 on an IN_CART item of an RFID SKU *)
Restores(e, id, at) ==
  LET item == e.customerBasketItems[id]
      held == HeldBy(e, id)
      r == RemoveOf(e, id, at)
  IN /\ r.status = "removed"
     /\ \A k \in 1..Len(held) :
           BoundTo(r.e, held[k], item.zoneId, item.skuId, at)
     /\ r.e.customerBasketItems[id].status = "REMOVED"
     /\ \A i \in 1..Len(r.e.pendingRFIDPicks) :
           r.e.pendingRFIDPicks[i].basketItemId = id
              => /\ r.e.pendingRFIDPicks[i].status = "COMPLETED"
                 /\ r.e.pendingRFIDPicks[i].consumedEpcs = <<>>
     /\ r.restoredQty = Len(held)

RemovalRestores ==
  \A id \in RfidInCart : \A at \in CartTimes : Restores(St, id, at)

(* what may happen between the add and the remove: nothing, a sweep of the
   shelf or one antenna read *)
Between ==
  {<<"none">>} \cup {<<"sweep", in>> : in \in CartSweepInputs}
               \cup {<<"read", event>> : event \in CartReadInputs}

ApplyBetween(e, op) ==
  IF op[1] = "sweep" THEN forceZoneSweep(e, op[2][1], op[2][2]).e
  ELSE IF op[1] = "read" THEN ingestRFIDRead(e, op[2]).e
  ELSE e

(* add, op, remove at `at` *)
WithItem(e, payload, op, at) ==
  LET added == addCustomerItem(e, payload).e
  IN RemoveOf(ApplyBetween(added, op), Len(added.customerBasketItems), at).e

(* op alone, the location recomputed at `at` *)
WithoutItem(e, payload, op, at) ==
  calculateZoneInventory([ApplyBetween(e, op) EXCEPT !.nowCursor = at],
                         payload.zoneId)

SameStock(a, b, payload) ==
  /\ getCurrentInventoryQty(a, payload.zoneId, payload.skuId, "RFID")
       = getCurrentInventoryQty(b, payload.zoneId, payload.skuId, "RFID")
  /\ getAvailableQtyForCart(a, payload.zoneId, payload.skuId, "RFID")
       = getAvailableQtyForCart(b, payload.zoneId, payload.skuId, "RFID")

(* the tags the item holds just before its removal *)
HeldBeforeRemoval(e, payload, op) ==
  LET added == addCustomerItem(e, payload).e
  IN HeldBy(ApplyBetween(added, op), Len(added.customerBasketItems))

(* every tag the item held would still be on the location at `at` *)
TagsStay(e, payload, op, at) ==
  LET held == HeldBeforeRemoval(e, payload, op)
      w == WithoutItem(e, payload, op, at)
      there == getPresentEPCs(w, payload.zoneId, payload.skuId)
  IN \A k \in 1..Len(held) : \E j \in 1..Len(there) : there[j] = held[k]

RoundTrips ==
  {x \in CartAddInputs \X Between \X CartTimes :
     addCustomerItem(St, x[1]).status = "accepted"}

(* C40 as stated: the removal restores every consumed EPC at the removal
   timestamp, and after any round trip the RFID qty and the cart-available
   qty of the location are those of the store where the item was never
   added *)
C40_RoundTripAsNeverAdded ==
  /\ RemovalRestores
  /\ \A x \in RoundTrips :
        SameStock(WithItem(St, x[1], x[2], x[3]),
                  WithoutItem(St, x[1], x[2], x[3]), x[1])

(* C40: removeCustomerItem on an IN_CART RFID item binds every EPC of the
   pick's consumedEpcs to the item's location with lastSeenAt = the removal
   timestamp, marks the item REMOVED and the pick COMPLETED and empty, returns
   restoredQty = the length of consumedEpcs; the RFID qty and the
   cart-available qty after the round trip are those of the store where the
   item was never added whenever the tags the item held would still be
   present on the location at the removal timestamp *)
C40_RoundTripWhenTagsStay ==
  /\ RemovalRestores
  /\ \A x \in RoundTrips :
        TagsStay(St, x[1], x[2], x[3])
           => SameStock(WithItem(St, x[1], x[2], x[3]),
                        WithoutItem(St, x[1], x[2], x[3]), x[1])

C40_TagRestored ==
  /\ ret.cmd = "removeCustomerItem" /\ ret.status = "removed"
  /\ ret.qty > 0
  /\ customerBasketItems[ret.id].status = "REMOVED"
  /\ \E i \in 1..Len(epcPresence) :
        /\ epcPresence[i].lastSeenAt = ret.t
        /\ epcPresence[i].zoneId = customerBasketItems[ret.id].zoneId

====
